---- MODULE Spec2Model ----
(***************************************************************************)
(* Thrill's log post-processing scripts as state machines:                 *)
(*   scripts/json2profile.py   ingestion, the pandas DataFrame df_stats,   *)
(*                             and the derivations served from it;         *)
(*   scripts/json2graphviz.py  the DIA graph export.                       *)
(*   frontends/swig_python/RemoteThrill.py  the fork-join calls over the   *)
(*                             rpyc workers;                               *)
(*   run/ec2-setup/setup.py    the loop that attaches the volumes.         *)
(*                                                                         *)
(* Conventions.                                                            *)
(*  - A JSON value is a tagged record: JNull, JNum(n), JStr(s), JList(l),  *)
(*    JMap(m).  A Python dict (and a JSON object) is a sequence of         *)
(*    <<key, value>> pairs in insertion order, without duplicate keys.     *)
(*  - A Python float is an exact fraction JFloat(num, den), den > 0; the   *)
(*    model never rounds, and compares fractions by cross-multiplication.  *)
(*  - A DataFrame is a sequence of rows [idx |-> label, rec |-> cells];    *)
(*    cells is a function from the column names the row has a value for;   *)
(*    a column the row has no value for is NaN in that row.                *)
(*  - json2profile.py is modelled on the interpreters it runs on           *)
(*    (collections.MutableMapping exists, Python 3.3 to 3.9).              *)
(***************************************************************************)
EXTENDS Integers, Sequences, FiniteSets, TLC

VARIABLES
    argv,       \* json2profile: sys.argv[1:], each file a sequence of lines
    fi, li,     \* json2profile: position of the two ingestion loops
    stats,      \* json2profile: the list of flattened records
    stdout,     \* json2profile: what print() has written
    pc,         \* json2profile: "ingest", "build", "normalize", "serve", "raised"
    exc,        \* json2profile: the uncaught exception, or "none"
    df_stats,   \* json2profile: the DataFrame
    min_ts,     \* json2profile: start of program
    resp,       \* json2profile: what the last derivation returned
    gfile,      \* json2graphviz: the lines of sys.argv[1]
    gli,        \* json2graphviz: position of the read loop
    nodes,      \* json2graphviz: the dict id -> {label, parents}
    gout,       \* json2graphviz: the statements written to stdout
    gpc,        \* json2graphviz: "read", "nodes", "edges", "done", "raised"
    gpos,       \* json2graphviz: position of the two print loops
    gexc,       \* json2graphviz: the uncaught exception, or "none"
    gargv,      \* json2graphviz: sys.argv[1:], each file [ok, lines]
    rhosts,     \* RemoteThrill: the number of rpyc hosts
    rself,      \* RemoteThrill: self._ctx, and self._dias of the last RemoteDIA
    rcall,      \* RemoteThrill: the call in progress, [op, pc, pos]
    asyncs,     \* RemoteThrill: the AsyncResult of each request of the call
    rlog,       \* RemoteThrill: what happened in the call, in order
    rret,       \* RemoteThrill: what the last call returned
    ecfg,       \* ec2 setup: config.json, [COUNT, VOL_SNAPSHOT_ID]
    einst,      \* ec2 setup: the state of each instance with the key name
    evols,      \* ec2 setup: the volumes created, [state, instance]
    attached,   \* ec2 setup: the list of instance ids
    epc,        \* ec2 setup: "create", "filter", "for", "volume", "done"
    efor        \* ec2 setup: the for loop, [todo, cur]

pvars == <<argv, fi, li, stats, stdout, pc, exc, df_stats, min_ts, resp>>
gvars == <<gfile, gli, nodes, gout, gpc, gpos, gexc, gargv>>
rvars == <<rhosts, rself, rcall, asyncs, rlog, rret>>
evars == <<ecfg, einst, evols, attached, epc, efor>>
vars == <<argv, fi, li, stats, stdout, pc, exc, df_stats, min_ts, resp,
          gfile, gli, nodes, gout, gpc, gpos, gexc, gargv,
          rhosts, rself, rcall, asyncs, rlog, rret,
          ecfg, einst, evols, attached, epc, efor>>

----------------------------------------------------------------------------
(* Bounds of the model.                                                    *)

MaxLines == 3
MaxFiles == 2
MaxPoints == 4
MaxDepth == 2
MaxWorkers == 2
MaxOps == 1
MaxCount == 2
MaxForeign == 1

----------------------------------------------------------------------------
(* JSON values and Python dicts.                                           *)

JNull == [t |-> "null"]
JInvalid == [t |-> "invalid"]
JNum(n) == [t |-> "num", n |-> n]
JStr(s) == [t |-> "str", s |-> s]
JList(l) == [t |-> "list", l |-> l]
JMap(m) == [t |-> "map", m |-> m]
JFloat(num, den) == [t |-> "float", num |-> num, den |-> den]
JBool(b) == [t |-> "bool", b |-> b]

DictKeys(d) == {d[i][1] : i \in DOMAIN d}
DictGet(d, k) == d[CHOOSE i \in DOMAIN d : d[i][1] = k][2]

\* d[k] = v: a new key is appended, an existing key keeps its position.
DictSet(d, k, v) ==
    IF k \in DictKeys(d)
    THEN [i \in DOMAIN d |-> IF d[i][1] = k THEN <<k, v>> ELSE d[i]]
    ELSE Append(d, <<k, v>>)

\* dict(items)
RECURSIVE DictOf(_)
DictOf(items) ==
    IF items = <<>> THEN <<>>
    ELSE LET n == Len(items)
         IN DictSet(DictOf(SubSeq(items, 1, n - 1)), items[n][1], items[n][2])

\* Sequences over S of length lo..hi.
SeqsOf(S, lo, hi) == UNION {[1..n -> S] : n \in lo..hi}

RECURSIVE SumSeq(_)
SumSeq(s) == IF s = <<>> THEN 0 ELSE s[1] + SumSeq(Tail(s))

----------------------------------------------------------------------------
(* json2profile.py: ingestion.                                             *)

\* new_key = parent_key + sep + k if parent_key else k
NewKey(parent_key, sep, k) ==
    IF parent_key # "" THEN parent_key \o sep \o k ELSE k

\* The items list flatten_dicts builds for d.
RECURSIVE FlattenItems(_, _, _)
FlattenItems(d, parent_key, sep) ==
    IF d = <<>> THEN <<>>
    ELSE LET k == d[1][1]
             v == d[1][2]
             new_key == NewKey(parent_key, sep, k)
             mine == IF v.t = "map"
                     THEN DictOf(FlattenItems(v.m, new_key, sep))
                     ELSE << <<new_key, v>> >>
         IN mine \o FlattenItems(Tail(d), parent_key, sep)

flatten_dicts(d, parent_key, sep) == DictOf(FlattenItems(d, parent_key, sep))

\* A line of a log file: its text and what json.loads makes of it
\* (JInvalid: json.loads raises ValueError).
Line(raw, json) == [raw |-> raw, json |-> json]

\* The strings of the model of which 'class' is a substring.
ClassTexts == {"class", "first class"}

\* 'class' in r, for the values on which the operator is defined.
HasClass(r) ==
    CASE r.t = "map" -> "class" \in DictKeys(r.m)
      [] r.t = "list" -> \E i \in DOMAIN r.l : r.l[i] = JStr("class")
      [] r.t = "str" -> r.s \in ClassTexts
      [] OTHER -> FALSE

\* The first line at or after line l of file f, skipping exhausted and empty
\* files; <<Len(files) + 1, 1>> when the loops are over.
RECURSIVE SeekLine(_, _, _)
SeekLine(files, f, l) ==
    IF f > Len(files) THEN <<Len(files) + 1, 1>>
    ELSE IF l <= Len(files[f]) THEN <<f, l>>
    ELSE SeekLine(files, f + 1, 1)

\* Lines 39-46, one iteration of the inner loop.
ReadLine ==
    /\ pc = "ingest"
    /\ fi <= Len(argv)
    /\ LET line == argv[fi][li]
           r == line.json
           nxt == SeekLine(argv, fi, li + 1)
           raise(e) == /\ pc' = "raised"
                       /\ exc' = e
                       /\ UNCHANGED <<fi, li, stats, stdout>>
           continue == /\ fi' = nxt[1]
                       /\ li' = nxt[2]
                       /\ UNCHANGED <<pc, exc>>
       IN CASE r.t = "invalid" ->
                 \* except ValueError: print, pass
                 /\ stdout' = Append(stdout, [msg |-> "JSON line invalid: ",
                                              arg |-> line.raw])
                 /\ UNCHANGED stats
                 /\ continue
            [] r.t \in {"null", "num", "bool"} ->
                 \* 'class' in r: argument of type ... is not iterable
                 raise("TypeError")
            [] r.t \in {"str", "list"} /\ HasClass(r) ->
                 \* flatten_dicts(r): r has no attribute 'items'
                 raise("AttributeError")
            [] r.t = "map" /\ HasClass(r) ->
                 /\ stats' = Append(stats, flatten_dicts(r.m, "", "_"))
                 /\ UNCHANGED stdout
                 /\ continue
            [] OTHER ->
                 /\ UNCHANGED <<stats, stdout>>
                 /\ continue
    /\ UNCHANGED <<argv, df_stats, min_ts, resp>>
    /\ UNCHANGED <<gvars, rvars, evars>>

\* Line 48.
PrintRead ==
    /\ pc = "ingest"
    /\ fi > Len(argv)
    /\ stdout' = Append(stdout, [msg |-> "Read json events from files",
                                 events |-> Len(stats),
                                 files |-> Len(argv)])
    /\ pc' = "build"
    /\ UNCHANGED <<argv, fi, li, stats, exc, df_stats, min_ts, resp>>
    /\ UNCHANGED <<gvars, rvars, evars>>

----------------------------------------------------------------------------
(* json2profile.py: the DataFrame.                                         *)

\* The 1e3 of line 55.
TsDiv == 1000

\* pd.DataFrame(stats): row i - 1 holds the record stats[i].
DataFrame(records) ==
    [i \in DOMAIN records |->
        [idx |-> i - 1,
         rec |-> [k \in DictKeys(records[i]) |-> DictGet(records[i], k)]]]

\* key in df
Columns(df) == UNION {DOMAIN df[i].rec : i \in DOMAIN df}

\* not isnull(df[col]) in row
HasCell(row, col) == col \in DOMAIN row.rec

Perms(n) == {p \in [1..n -> 1..n] : \A i, j \in 1..n : p[i] = p[j] => i = j}

\* df.sort_values(by=col) for an integer column: kind='quicksort' is not a
\* stable sort, so rows with equal keys come out in any order; rows with NaN
\* are put last, in the order they had.
sort_values(df, col) ==
    {[i \in DOMAIN df |-> df[p[i]]] : p \in
        {q \in Perms(Len(df)) :
            \A i, j \in DOMAIN df : i < j =>
                \/ /\ HasCell(df[q[i]], col)
                   /\ HasCell(df[q[j]], col)
                   /\ df[q[i]].rec[col].n <= df[q[j]].rec[col].n
                \/ /\ HasCell(df[q[i]], col)
                   /\ ~HasCell(df[q[j]], col)
                \/ /\ ~HasCell(df[q[i]], col)
                   /\ ~HasCell(df[q[j]], col)
                   /\ q[i] < q[j]}}

\* The value of the first record ingested that has one, in place of the least.
ColumnFirst(df, col) ==
    LET have == {j \in DOMAIN df : HasCell(df[j], col)}
        first == CHOOSE j \in have : \A h \in have : df[j].idx <= df[h].idx
    IN df[first].rec[col].n

\* df[col].min(), NaN skipped; defined when some row has a value.
ColumnMin(df, col) ==
    LET vals == {df[i].rec[col].n : i \in {j \in DOMAIN df : HasCell(df[j], col)}}
    IN CHOOSE m \in vals : \A v \in vals : m <= v

\* Line 51.
BuildStore ==
    /\ pc = "build"
    /\ IF "ts" \in Columns(DataFrame(stats))
       THEN /\ df_stats' \in sort_values(DataFrame(stats), "ts")
            /\ pc' = "normalize"
            /\ UNCHANGED exc
       ELSE \* sort_values(by='ts') on a frame without that column
            /\ pc' = "raised"
            /\ exc' = "KeyError"
            /\ UNCHANGED df_stats
    /\ UNCHANGED <<argv, fi, li, stats, stdout, min_ts, resp>>
    /\ UNCHANGED <<gvars, rvars, evars>>

\* (df['ts'] - m) / 1e3
NormalizeTs(df, m) ==
    [i \in DOMAIN df |->
        IF HasCell(df[i], "ts")
        THEN [df[i] EXCEPT !.rec["ts"] = JFloat(df[i].rec["ts"].n - m, TsDiv)]
        ELSE df[i]]

\* Lines 54-55.
Normalize ==
    /\ pc = "normalize"
    /\ min_ts' = ColumnMin(df_stats, "ts")
    /\ df_stats' = NormalizeTs(df_stats, min_ts')
    /\ pc' = "serve"
    /\ UNCHANGED <<argv, fi, li, stats, stdout, exc, resp>>
    /\ UNCHANGED <<gvars, rvars, evars>>

----------------------------------------------------------------------------
(* json2profile.py: the profile series.                                    *)

JNaN == [t |-> "nan"]

\* What a function call gives: its value, or the exception it raises.
Return(v) == [raised |-> "none", val |-> v]
Raise(e) == [raised |-> e, val |-> <<>>]

\* row[col], NaN where the row has no value.
Cell(row, col) == IF HasCell(row, col) THEN row.rec[col] ELSE JNaN

\* The selection without the test of the event.
ClassOnly(row, sclass, event) == Cell(row, "class") = JStr(sclass)

\* (df['class'] == sclass) & (df['event'] == event)
ClassEvent(row, sclass, event) ==
    /\ Cell(row, "class") = JStr(sclass)
    /\ Cell(row, "event") = JStr(event)

\* Lines 58-63. The frame returned has index ts and the one column key: a
\* sequence of points [ts, v].
Series(sclass, key) ==
    LET df == df_stats
    IN IF key \notin Columns(df) THEN Return(<<>>)
       ELSE IF "event" \notin Columns(df) THEN Raise("KeyError")
       ELSE LET sel == SelectSeq(df, LAMBDA row : ClassEvent(row, sclass, "profile"))
            IN Return([i \in DOMAIN sel |->
                          [ts |-> Cell(sel[i], "ts"), v |-> Cell(sel[i], key)]])

\* The sum with a missing value counted as 0.
AddCellsZero(a, b) ==
    IF a = JNaN /\ b = JNaN THEN JNaN
    ELSE JNum((IF a = JNaN THEN 0 ELSE a.n) + (IF b = JNaN THEN 0 ELSE b.n))

\* df[key1] + df[key2] in one row
AddCells(a, b) ==
    IF a = JNaN \/ b = JNaN THEN JNaN ELSE JNum(a.n + b.n)

\* SeriesSum with the guard on key1 alone: the selection of a column the
\* frame does not have raises KeyError.
SeriesSumKey1(sclass, key1, key2) ==
    LET df == df_stats
    IN IF key1 \notin Columns(df) THEN Return(<<>>)
       ELSE IF {"event", key2} \subseteq Columns(df)
       THEN LET sel == SelectSeq(df, LAMBDA row : ClassEvent(row, sclass, "profile"))
            IN Return([i \in DOMAIN sel |->
                          [ts |-> Cell(sel[i], "ts"),
                           v |-> AddCells(Cell(sel[i], key1), Cell(sel[i], key2))]])
       ELSE Raise("KeyError")

\* Lines 66-74, for key1 # key2.
SeriesSum(sclass, key1, key2) ==
    LET df == df_stats
    IN IF key1 \notin Columns(df) \/ key2 \notin Columns(df) THEN Return(<<>>)
       ELSE IF "event" \notin Columns(df) THEN Raise("KeyError")
       ELSE LET sel == SelectSeq(df, LAMBDA row : ClassEvent(row, sclass, "profile"))
            IN Return([i \in DOMAIN sel |->
                          [ts |-> Cell(sel[i], "ts"),
                           v |-> AddCells(Cell(sel[i], key1), Cell(sel[i], key2))]])

\* df.dropna(): the rows with NaN in a column go; the index is not looked at.
dropna(points) == SelectSeq(points, LAMBDA p : p.v # JNaN)

\* The 1e3 and the 10 of line 103.
AggrDiv == 1000
AggrMul == 10

\* int(x) for the fraction num / den, den > 0: truncation towards zero.
IntOf(num, den) == IF num >= 0 THEN num \div den ELSE -((-num) \div den)

\* Windows of a second: int(r / 1e3) * 10
GroupIndexSecond(r) == IntOf(r.num, r.den * AggrDiv) * AggrMul

\* int(r / 1e3 * 10)
GroupIndex(r) == IntOf(r.num * AggrMul, r.den * AggrDiv)

\* lambda r : int(r / 1e3 * 10) * 1e3 / 10
GroupKey(r) == JFloat(GroupIndex(r) * AggrDiv, AggrMul)

\* The elements of a finite set of integers in ascending order.
RECURSIVE Ascending(_)
Ascending(S) ==
    IF S = {} THEN <<>>
    ELSE LET m == CHOOSE x \in S : \A y \in S : x <= y
         IN <<m>> \o Ascending(S \ {m})

\* np.average of the values of a non-empty group
average(points) ==
    JFloat(SumSeq([i \in DOMAIN points |-> points[i].v.n]), Len(points))

\* Lines 97-104. groupby sorts the group keys; series_to_xy pairs each key
\* with the first column.
xy_aggregated(points) ==
    LET df == dropna(points)
    IN IF \E i \in DOMAIN df : df[i].ts = JNaN
       THEN \* int(nan)
            Raise("ValueError")
       ELSE LET ks == Ascending({GroupIndex(df[i].ts) : i \in DOMAIN df})
            IN Return([g \in DOMAIN ks |->
                    <<JFloat(ks[g] * AggrDiv, AggrMul),
                      average(SelectSeq(df, LAMBDA p : GroupKey(p.ts) = JFloat(ks[g] * AggrDiv, AggrMul)))>>])

\* The calls of index(): xy_aggregated(Series(...)) and
\* xy_aggregated(SeriesSum(...)).
Chart(series) ==
    IF series.raised # "none" THEN series ELSE xy_aggregated(series.val)

NoResp == [fn |-> "none"]

SeriesRequest(sclass, key) ==
    /\ pc = "serve"
    /\ resp = NoResp
    /\ resp' = [fn |-> "Series", sclass |-> sclass, key |-> key,
                series |-> Series(sclass, key),
                data |-> Chart(Series(sclass, key))]
    /\ UNCHANGED <<argv, fi, li, stats, stdout, pc, exc, df_stats, min_ts>>
    /\ UNCHANGED <<gvars, rvars, evars>>

SeriesSumRequest(sclass, key1, key2) ==
    /\ pc = "serve"
    /\ resp = NoResp
    /\ key1 # key2
    /\ resp' = [fn |-> "SeriesSum", sclass |-> sclass, key |-> key1, key2 |-> key2,
                series |-> SeriesSum(sclass, key1, key2),
                data |-> Chart(SeriesSum(sclass, key1, key2))]
    /\ UNCHANGED <<argv, fi, li, stats, stdout, pc, exc, df_stats, min_ts>>
    /\ UNCHANGED <<gvars, rvars, evars>>

\* The response is sent; the server waits for the next request.
Respond ==
    /\ pc = "serve"
    /\ resp # NoResp
    /\ resp' = NoResp
    /\ UNCHANGED <<argv, fi, li, stats, stdout, pc, exc, df_stats, min_ts>>
    /\ UNCHANGED <<gvars, rvars, evars>>

----------------------------------------------------------------------------
(* json2profile.py: the table of DIAs.                                     *)

\* Lines 118-127. The frame returned has index id: a sequence of rows.
dia_table ==
    LET df == df_stats
    IN IF ~({"class", "event", "worker_rank"} \subseteq Columns(df))
       THEN Raise("KeyError")
       ELSE LET sel == SelectSeq(df, LAMBDA row :
                           /\ ClassEvent(row, "DIABase", "create")
                           /\ Cell(row, "worker_rank") = JNum(0))
            IN IF Len(sel) = 0 THEN Return(<<>>)
               ELSE IF ~({"id", "label", "type", "parents"} \subseteq Columns(df))
               THEN Raise("KeyError")
               ELSE IF \E i \in DOMAIN sel : ~HasCell(sel[i], "id")
               THEN \* astype(int) of NaN
                    Raise("ValueError")
               ELSE Return([i \in DOMAIN sel |->
                       [id |-> sel[i].rec["id"].n,
                        label |-> Cell(sel[i], "label"),
                        type |-> Cell(sel[i], "type"),
                        parents |-> Cell(sel[i], "parents"),
                        label_id |->
                            IF HasCell(sel[i], "label")
                            THEN JStr(sel[i].rec["label"].s \o "."
                                        \o ToString(sel[i].rec["id"].n))
                            ELSE JNaN]])

DiaRequest ==
    /\ pc = "serve"
    /\ resp = NoResp
    /\ resp' = [fn |-> "dia_table", table |-> dia_table]
    /\ UNCHANGED <<argv, fi, li, stats, stdout, pc, exc, df_stats, min_ts>>
    /\ UNCHANGED <<gvars, rvars, evars>>

----------------------------------------------------------------------------
(* json2profile.py: the tables of Stream and File statistics.              *)
(* A row of these frames is a function from the index name 'ts' and the    *)
(* column names to the values; the columns coerced by astype(int) hold     *)
(* integers, ts and label_id hold JSON values or NaN.                      *)

Range(s) == {s[i] : i \in DOMAIN s}

\* The first two entries of cols, line 132.
RankCols == <<"host_rank", "worker_rank">>

\* cols, lines 161-162 (and the rest of cols, lines 132-133).
CounterCols == <<"rx_net_items", "tx_net_items", "rx_net_bytes", "tx_net_bytes",
                 "rx_int_items", "tx_int_items", "rx_int_bytes", "tx_int_bytes">>

\* The totals with the internal counters of the two directions exchanged.
TotalColsCrossed == << <<"rx_items", "rx_net_items", "tx_int_items">>,
                       <<"rx_bytes", "rx_net_bytes", "tx_int_bytes">>,
                       <<"tx_items", "tx_net_items", "rx_int_items">>,
                       <<"tx_bytes", "tx_net_bytes", "rx_int_bytes">> >>

\* The totals of lines 177-180: name, net counter, internal counter.
TotalCols == << <<"rx_items", "rx_net_items", "rx_int_items">>,
                <<"rx_bytes", "rx_net_bytes", "rx_int_bytes">>,
                <<"tx_items", "tx_net_items", "tx_int_items">>,
                <<"tx_bytes", "tx_net_bytes", "tx_int_bytes">> >>

\* The row of df[...].set_index('ts') after df[c] = df[c].astype(int) for
\* the columns c of cols, for a row that has a number in each of them.
Coerced(row, cols) ==
    [c \in {"ts"} \cup cols |-> IF c = "ts" THEN Cell(row, "ts") ELSE row.rec[c].n]

\* Row a comes before row b in the lexicographic order of the columns by.
LexLess(a, b, by) ==
    \E k \in DOMAIN by :
        /\ \A j \in 1..(k - 1) : a[by[j]] = b[by[j]]
        /\ a[by[k]] < b[by[k]]

\* df.sort_values(by=[...]) for a list of integer columns: pandas sorts a
\* list of keys with its lexsort indexer, which is stable.
RECURSIVE sort_values_by(_, _)
sort_values_by(df, by) ==
    IF df = <<>> THEN <<>>
    ELSE LET n == Len(df)
             s == sort_values_by(SubSeq(df, 1, n - 1), by)
             k == Cardinality({i \in DOMAIN s : ~LexLess(df[n], s[i], by)})
         IN SubSeq(s, 1, k) \o <<df[n]>> \o SubSeq(s, k + 1, Len(s))

\* The join with how='inner': a left row without a match is dropped.
RECURSIVE merge_inner(_, _)
merge_inner(left, right) ==
    IF left = <<>> THEN <<>>
    ELSE LET l == Head(left)
             m == SelectSeq(right, LAMBDA r : r.id = l["dia_id"])
         IN [i \in DOMAIN m |-> l @@ ("label_id" :> m[i].label_id)]
              \o merge_inner(Tail(left), right)

\* df.merge(right=dia_table(), how='left', left_on='dia_id', right_index=True)
\* as far as the column label_id goes: the left rows in their order, each once
\* for every row of right with its dia_id as index, once with NaN if there is
\* none.
RECURSIVE merge(_, _)
merge(left, right) ==
    IF left = <<>> THEN <<>>
    ELSE LET l == Head(left)
             m == SelectSeq(right, LAMBDA r : r.id = l["dia_id"])
             joined == IF m = <<>> THEN << l @@ ("label_id" :> JNaN) >>
                       ELSE [i \in DOMAIN m |-> l @@ ("label_id" :> m[i].label_id)]
         IN joined \o merge(Tail(left), right)

\* df[cols] of every row.
Project(df, cols) == [i \in DOMAIN df |-> [c \in cols |-> df[i][c]]]

\* by of line 181.
StreamSortById == <<"id", "dia_id">>

\* The sort by the stream id alone.
StreamSortByStream == <<"id">>

\* by of line 150.
StreamSortBy == <<"id", "dia_id", "host_rank", "worker_rank">>

\* Lines 130-153.
stream_table ==
    LET df == df_stats
        cols == Range(RankCols) \cup Range(CounterCols)
        need == {"id", "dia_id"} \cup cols
    IN IF ~({"class", "event"} \subseteq Columns(df)) THEN Raise("KeyError")
       ELSE LET sel == SelectSeq(df, LAMBDA row : ClassEvent(row, "Stream", "close"))
            IN IF Len(sel) = 0 THEN Return(<<>>)
               ELSE IF ~(({"ts"} \cup need) \subseteq Columns(df))
               THEN \* df[['ts','id','dia_id'] + cols]
                    Raise("KeyError")
               ELSE IF \E i \in DOMAIN sel : \E c \in need : ~HasCell(sel[i], c)
               THEN \* astype(int) of NaN
                    Raise("ValueError")
               ELSE IF dia_table.raised # "none" THEN dia_table
               ELSE LET ints == [i \in DOMAIN sel |-> Coerced(sel[i], need)]
                        joined == merge(sort_values_by(ints, StreamSortBy),
                                        dia_table.val)
                    IN Return(Project(joined, {"ts", "id", "label_id"} \cup cols))

\* The values of label_id in the runs checked, in the order of Python's str.
LabelIds == <<"Generate.1", "ReadLines.1", "Sort.2">>
StrRank(s) == CHOOSE i \in DOMAIN LabelIds : LabelIds[i] = s

\* Lines 177-180.
WithTotals(row) ==
    row @@ [c \in {TotalCols[i][1] : i \in DOMAIN TotalCols} |->
               LET t == CHOOSE i \in DOMAIN TotalCols : TotalCols[i][1] = c
               IN row[TotalCols[t][2]] + row[TotalCols[t][3]]]

\* The group keys of groupby(['id','label_id']): a row with NaN in a key
\* column belongs to no group.
GroupKeys(df) ==
    {<<df[i]["id"], df[i]["label_id"]>> :
        i \in {j \in DOMAIN df : df[j]["label_id"] # JNaN}}

KeyLess(a, b) ==
    \/ a[1] < b[1]
    \/ a[1] = b[1] /\ StrRank(a[2].s) < StrRank(b[2].s)

\* groupby sorts the group keys.
RECURSIVE SortedKeys(_)
SortedKeys(S) ==
    IF S = {} THEN <<>>
    ELSE LET m == CHOOSE x \in S : \A y \in S \ {x} : KeyLess(x, y)
         IN <<m>> \o SortedKeys(S \ {m})

\* df.groupby(['id','label_id']).aggregate(np.sum): one row per group, with
\* the sum of every column cols over the rows of the group.
groupby_sum(df, cols) ==
    LET ks == SortedKeys(GroupKeys(df))
    IN [g \in DOMAIN ks |->
          LET members == SelectSeq(df, LAMBDA r : /\ r["id"] = ks[g][1]
                                                  /\ r["label_id"] = ks[g][2])
          IN [c \in {"id", "label_id"} \cup cols |->
                IF c = "id" THEN ks[g][1]
                ELSE IF c = "label_id" THEN ks[g][2]
                ELSE SumSeq([i \in DOMAIN members |-> members[i][c]])]]

\* Lines 159-185.
stream_summary_table ==
    LET df == df_stats
        cols == Range(CounterCols)
        need == {"id", "dia_id"} \cup cols
        totals == {TotalCols[i][1] : i \in DOMAIN TotalCols}
    IN IF ~({"class", "event"} \subseteq Columns(df)) THEN Raise("KeyError")
       ELSE LET sel == SelectSeq(df, LAMBDA row : ClassEvent(row, "Stream", "close"))
            IN IF Len(sel) = 0 THEN Return(<<>>)
               ELSE IF ~(({"ts"} \cup need) \subseteq Columns(df))
               THEN Raise("KeyError")
               ELSE IF \E i \in DOMAIN sel : \E c \in need : ~HasCell(sel[i], c)
               THEN Raise("ValueError")
               ELSE IF dia_table.raised # "none" THEN dia_table
               ELSE LET ints == [i \in DOMAIN sel |-> WithTotals(Coerced(sel[i], need))]
                        joined == merge(sort_values_by(ints, StreamSortById),
                                        dia_table.val)
                    IN Return(groupby_sum(joined, totals \cup cols))

\* The columns of lines 199-203, in the order of the assignments.
FileInts == <<"id", "dia_id", "host_rank", "items", "bytes">>

\* by of line 204.
FileSortBy == <<"dia_id", "id", "host_rank">>

\* df[c] = df[c].astype(int) for the columns cols in turn, on the rows sel of
\* frame df: the exception raised, or "none".
RECURSIVE AstypeInt(_, _, _)
AstypeInt(df, sel, cols) ==
    IF cols = <<>> THEN "none"
    ELSE IF Head(cols) \notin Columns(df) THEN "KeyError"
    ELSE IF \E i \in DOMAIN sel : ~HasCell(sel[i], Head(cols)) THEN "ValueError"
    ELSE AstypeInt(df, sel, Tail(cols))

\* The filter without the files that never contained items taken out.
AnyItems(row) == HasCell(row, "items") /\ row.rec["items"].n >= 0

\* df['items'] > 0 in one row; NaN > 0 is False.
HasItems(row) == HasCell(row, "items") /\ row.rec["items"].n > 0

\* Lines 191-207.
file_table ==
    LET df == df_stats
    IN IF ~({"class", "event"} \subseteq Columns(df)) THEN Raise("KeyError")
       ELSE LET sel == SelectSeq(df, LAMBDA row : ClassEvent(row, "File", "close"))
                kept == SelectSeq(sel, HasItems)
            IN IF Len(sel) = 0 THEN Return(<<>>)
               ELSE IF ~({"ts", "items"} \subseteq Columns(df)) THEN Raise("KeyError")
               ELSE IF AstypeInt(df, kept, FileInts) # "none"
               THEN Raise(AstypeInt(df, kept, FileInts))
               ELSE IF dia_table.raised # "none" THEN dia_table
               ELSE LET ints == [i \in DOMAIN kept |-> Coerced(kept[i], Range(FileInts))]
                        joined == merge(sort_values_by(ints, FileSortBy),
                                        dia_table.val)
                    IN Return(Project(joined, {"ts", "label_id", "id", "host_rank",
                                               "items", "bytes"}))

\* stream_table() is called.
StreamRequest ==
    /\ pc = "serve"
    /\ resp = NoResp
    /\ resp' = [fn |-> "stream_table", table |-> stream_table]
    /\ UNCHANGED <<argv, fi, li, stats, stdout, pc, exc, df_stats, min_ts>>
    /\ UNCHANGED <<gvars, rvars, evars>>

\* stream_summary_table() is called.
StreamSummaryRequest ==
    /\ pc = "serve"
    /\ resp = NoResp
    /\ resp' = [fn |-> "stream_summary_table", table |-> stream_summary_table]
    /\ UNCHANGED <<argv, fi, li, stats, stdout, pc, exc, df_stats, min_ts>>
    /\ UNCHANGED <<gvars, rvars, evars>>

\* file_table() is called.
FileRequest ==
    /\ pc = "serve"
    /\ resp = NoResp
    /\ resp' = [fn |-> "file_table", table |-> file_table]
    /\ UNCHANGED <<argv, fi, li, stats, stdout, pc, exc, df_stats, min_ts>>
    /\ UNCHANGED <<gvars, rvars, evars>>

----------------------------------------------------------------------------
(* json2graphviz.py.                                                       *)

\* data[key] for what json.loads returned: the value, KeyError for a dict
\* without the key, TypeError for a value that is no dict.
Subscript(data, key) ==
    IF data.t # "map" THEN Raise("TypeError")
    ELSE IF key \notin DictKeys(data.m) THEN Raise("KeyError")
    ELSE Return(DictGet(data.m, key))

\* data["class"] == class and data["event"] == "create": the value of the
\* test, or the exception its evaluation raises (and short-circuits).
IsCreate(data, class) ==
    IF Subscript(data, "class").raised # "none" THEN Subscript(data, "class")
    ELSE IF Subscript(data, "class").val # JStr(class) THEN Return(FALSE)
    ELSE IF Subscript(data, "event").raised # "none" THEN Subscript(data, "event")
    ELSE Return(Subscript(data, "event").val = JStr("create"))

\* The assignment as a removal of the key followed by an insertion: a
\* re-defined id moves behind the ids defined since.
StoreNodeLast(d, data) ==
    IF \E key \in {"node_id", "node_label", "parents"} : key \notin DictKeys(data.m)
    THEN Raise("KeyError")
    ELSE Return(Append(SelectSeq(d, LAMBDA e : e[1] # DictGet(data.m, "node_id")),
                       <<DictGet(data.m, "node_id"),
                         [label |-> DictGet(data.m, "node_label"),
                          parents |-> DictGet(data.m, "parents")]>>))

\* Lines 29-31 and 33-35: the dict after the assignment, or the exception.
StoreNode(d, data) ==
    IF \E key \in {"node_id", "node_label", "parents"} : key \notin DictKeys(data.m)
    THEN Raise("KeyError")
    ELSE Return(DictSet(d, DictGet(data.m, "node_id"),
                        [label |-> DictGet(data.m, "node_label"),
                         parents |-> DictGet(data.m, "parents")]))

\* Lines 25-35, one iteration of the loop.
GvReadLine ==
    /\ gpc = "read"
    /\ gli <= Len(gfile)
    /\ LET data == gfile[gli].json
           first == IsCreate(data, "DIABase")
           after1 == IF first.raised = "none" /\ first.val
                     THEN StoreNode(nodes, data) ELSE Return(nodes)
           second == IsCreate(data, "DIA")
           after2 == IF second.raised = "none" /\ second.val
                     THEN StoreNode(after1.val, data) ELSE after1
           raised == IF data.t = "invalid" THEN "ValueError"
                     ELSE IF first.raised # "none" THEN first.raised
                     ELSE IF after1.raised # "none" THEN after1.raised
                     ELSE IF second.raised # "none" THEN second.raised
                     ELSE after2.raised
       IN IF raised # "none"
          THEN /\ gpc' = "raised"
               /\ gexc' = raised
               /\ UNCHANGED <<gli, nodes>>
          ELSE /\ nodes' = after2.val
               /\ gli' = gli + 1
               /\ UNCHANGED <<gpc, gexc>>
    /\ UNCHANGED <<gfile, gout, gpos>>
    /\ UNCHANGED <<gargv, pvars, rvars, evars>>

\* Line 37.
GvOpen ==
    /\ gpc = "read"
    /\ gli > Len(gfile)
    /\ gout' = Append(gout, [kind |-> "open"])
    /\ gpc' = "nodes"
    /\ gpos' = <<1, 1>>
    /\ UNCHANGED <<gfile, gli, nodes, gexc>>
    /\ UNCHANGED <<gargv, pvars, rvars, evars>>

SourceLabels == {"ReadLines", "ReadBinary", "Generate", "GenerateFile",
                 "Distribute", "DistributeFile"}
TransformLabels == {"PrefixSum", "ReduceBy", "ReducePair", "ReduceToIndex",
                    "GroupBy", "GroupByIndex", "Merge", "Sort", "Window", "Zip"}
\* The sinks with Cache among them.
SinkLabelsAndCache == {"AllGather", "Gather", "Size", "Sum", "Min", "Max",
                       "WriteBinary", "WriteLines", "WriteLinesMany", "Cache"}
SinkLabels == {"AllGather", "Gather", "Size", "Sum", "Min", "Max",
               "WriteBinary", "WriteLines", "WriteLinesMany"}

\* Lines 44-79: what the five tests write after the label.
StyleOf(label) ==
    (IF label \in SourceLabels
     THEN <<"colorscheme=accent5, style=filled, color=1, shape=invhouse">> ELSE <<>>)
    \o (IF label \in TransformLabels
        THEN <<"colorscheme=accent5, style=filled, color=2, shape=box">> ELSE <<>>)
    \o (IF label \in SinkLabels
        THEN <<"colorscheme=accent5, style=filled, color=3, shape=house">> ELSE <<>>)
    \o (IF label = "Cache"
        THEN <<"colorscheme=accent5, style=filled, color=4, shape=oval">> ELSE <<>>)
    \o (IF label = "Collapse"
        THEN <<"colorscheme=accent5, style=filled, color=5, shape=oval">> ELSE <<>>)

\* Lines 41-81: the statement of node ni.
NodeStmt(ni, n) ==
    [kind |-> "node", id |-> ni.n,
     label |-> n.label.s \o "." \o ToString(ni.n),
     style |-> StyleOf(n.label.s)]

\* Lines 40-81, one iteration of the loop.
GvPrintNode ==
    /\ gpc = "nodes"
    /\ gpos[1] <= Len(nodes)
    /\ gout' = Append(gout, NodeStmt(nodes[gpos[1]][1], nodes[gpos[1]][2]))
    /\ gpos' = <<gpos[1] + 1, 1>>
    /\ UNCHANGED <<gfile, gli, nodes, gpc, gexc>>
    /\ UNCHANGED <<gargv, pvars, rvars, evars>>

\* The parents lists of the nodes, in the order of nodes.items().
ParentLists == [i \in DOMAIN nodes |-> nodes[i][2].parents.l]

\* Line 83.
GvBlank ==
    /\ gpc = "nodes"
    /\ gpos[1] > Len(nodes)
    /\ gout' = Append(gout, [kind |-> "blank"])
    /\ gpc' = "edges"
    /\ gpos' = SeekLine(ParentLists, 1, 1)
    /\ UNCHANGED <<gfile, gli, nodes, gexc>>
    /\ UNCHANGED <<gargv, pvars, rvars, evars>>

\* The edge printed from the node to its parent.
EdgeStmtReversed(e, ni) == [kind |-> "edge", from |-> ni.n, to |-> e.n]

\* Line 88: print(" ", e, "->", ni, ";")
EdgeStmt(e, ni) == [kind |-> "edge", from |-> e.n, to |-> ni.n]

\* Lines 86-88, one iteration of the inner loop.
GvPrintEdge ==
    /\ gpc = "edges"
    /\ gpos[1] <= Len(nodes)
    /\ gout' = Append(gout, EdgeStmt(ParentLists[gpos[1]][gpos[2]], nodes[gpos[1]][1]))
    /\ gpos' = SeekLine(ParentLists, gpos[1], gpos[2] + 1)
    /\ UNCHANGED <<gfile, gli, nodes, gpc, gexc>>
    /\ UNCHANGED <<gargv, pvars, rvars, evars>>

\* Line 90.
GvClose ==
    /\ gpc = "edges"
    /\ gpos[1] > Len(nodes)
    /\ gout' = Append(gout, [kind |-> "close"])
    /\ gpc' = "done"
    /\ UNCHANGED <<gfile, gli, nodes, gpos, gexc>>
    /\ UNCHANGED <<gargv, pvars, rvars, evars>>

----------------------------------------------------------------------------
(* json2profile.py: the runs checked.                                      *)

\* all cut into Len(cuts) + 1 files after the lines cuts[1] <= cuts[2] <= ...
SplitAt(all, cuts) ==
    [f \in 1..(Len(cuts) + 1) |->
        SubSeq(all,
               (IF f = 1 THEN 0 ELSE cuts[f - 1]) + 1,
               IF f = Len(cuts) + 1 THEN Len(all) ELSE cuts[f])]

\* Every way to spread a sequence of lines over at most maxFiles files.
Spreads(all, maxFiles) ==
    (IF all = <<>> THEN {<<>>} ELSE {}) \cup
    {SplitAt(all, cuts) : cuts \in
        {c \in SeqsOf(0..Len(all), 0, maxFiles - 1) :
            \A i, j \in DOMAIN c : i < j => c[i] <= c[j]}}

\* The state json2graphviz.py is in when it is not run.
GraphvizIdle ==
    /\ gfile = <<>>
    /\ gli = 1
    /\ nodes = <<>>
    /\ gout = <<>>
    /\ gpc = "idle"
    /\ gpos = <<1, 1>>
    /\ gexc = "none"
    /\ gargv = <<>>

\* The state before a RemoteThrill object is made.
RemoteIdle ==
    /\ rhosts = 0
    /\ rself = [ctx |-> <<>>, dias |-> <<>>]
    /\ rcall = [op |-> "none", pc |-> "idle", pos |-> 1]
    /\ asyncs = <<>>
    /\ rlog = <<>>
    /\ rret = Return(JNull)

\* The state setup.py is in when it is not run.
Ec2Idle ==
    /\ ecfg = [COUNT |-> 0, VOL_SNAPSHOT_ID |-> FALSE]
    /\ einst = <<>>
    /\ evols = <<>>
    /\ attached = <<>>
    /\ epc = "idle"
    /\ efor = [todo |-> {}, cur |-> 0]

\* json2profile.py started on the files: the state before line 37.
ProfileStart(files) ==
    /\ argv = files
    /\ fi = SeekLine(files, 1, 1)[1]
    /\ li = SeekLine(files, 1, 1)[2]
    /\ stats = <<>>
    /\ stdout = <<>>
    /\ pc = "ingest"
    /\ exc = "none"
    /\ df_stats = <<>>
    /\ min_ts = 0
    /\ resp = NoResp
    /\ GraphvizIdle
    /\ RemoteIdle
    /\ Ec2Idle

Record(pairs) == Line("record", JMap(pairs))

\* A log record of the runtime: class, event, ts and its payload.
Event(class, event, ts, payload) ==
    Record(<< <<"class", JStr(class)>>, <<"event", JStr(event)>>,
              <<"ts", JNum(ts)>> >> \o payload)

\* Lines of every kind the ingestion loop tells apart.
IngestLines ==
    { Line("{oops", JInvalid),
      Line("", JInvalid),
      Event("LinuxProcStats", "profile", 5000000, << <<"cpu_user", JNum(1)>> >>),
      Event("NetManager", "profile", 5000500,
            << <<"net", JMap(<< <<"tx", JNum(3)>>, <<"rx", JNum(4)>> >>)>> >>),
      Record(<< <<"event", JStr("profile")>>, <<"ts", JNum(5000100)>> >>),
      Line("5", JNum(5)),
      Line("[1]", JList(<<JNum(1)>>)) }

InitIngest ==
    \E all \in SeqsOf(IngestLines, 0, MaxLines) :
        \E files \in Spreads(all, MaxFiles) : ProfileStart(files)

NextIngest == ReadLine \/ PrintRead

SpecIngest == InitIngest /\ [][NextIngest]_vars

\* Records with equal, different and missing timestamps.
StoreLines ==
    { Event("LinuxProcStats", "profile", 5000000, << <<"cpu_user", JNum(1)>> >>),
      Event("LinuxProcStats", "profile", 5001000, << <<"cpu_user", JNum(2)>> >>),
      Event("NetManager", "profile", 5002500, << <<"tx_speed", JNum(7)>> >>),
      Record(<< <<"class", JStr("Cmdline")>>, <<"event", JStr("start")>> >>) }

InitStore ==
    \E all \in SeqsOf(StoreLines, 0, MaxLines) : ProfileStart(<<all>>)

NextStore == ReadLine \/ PrintRead \/ BuildStore \/ Normalize

SpecStore == InitStore /\ [][NextStore]_vars

\* Profile records of one category 0, 50, 99.999, 100, 150 and 260 ms after
\* the start of the program.
BucketLines ==
    { Event("LinuxProcStats", "profile", 5000000,
            << <<"cpu_user", JNum(1)>>, <<"cpu_sys", JNum(1)>> >>),
      Event("LinuxProcStats", "profile", 5050000, << <<"cpu_user", JNum(2)>> >>),
      Event("LinuxProcStats", "profile", 5099999,
            << <<"cpu_user", JNum(5)>>, <<"cpu_sys", JNum(2)>> >>),
      Event("LinuxProcStats", "profile", 5100000, << <<"cpu_sys", JNum(6)>> >>),
      Event("LinuxProcStats", "profile", 5150000, << <<"cpu_user", JNum(3)>> >>),
      Event("LinuxProcStats", "profile", 5260000,
            << <<"cpu_user", JNum(4)>>, <<"cpu_sys", JNum(4)>> >>) }

InitBucket ==
    \E all \in SeqsOf(BucketLines, 0, MaxPoints) : ProfileStart(<<all>>)

NextBucket ==
    \/ ReadLine
    \/ PrintRead
    \/ BuildStore
    \/ Normalize
    \/ \E key \in {"cpu_user", "cpu_sys"} : SeriesRequest("LinuxProcStats", key)
    \/ SeriesSumRequest("LinuxProcStats", "cpu_user", "cpu_sys")
    \/ Respond

SpecBucket == InitBucket /\ [][NextBucket]_vars

\* Records of two categories, with and without the profile event, the event
\* field, the timestamp and the metric keys.
SeriesLines ==
    { Event("LinuxProcStats", "profile", 5000000,
            << <<"cpu_user", JNum(1)>>, <<"cpu_sys", JNum(2)>> >>),
      Event("LinuxProcStats", "profile", 5050000, << <<"cpu_user", JNum(3)>> >>),
      Event("LinuxProcStats", "profile", 5150000, << <<"cpu_sys", JNum(4)>> >>),
      Event("LinuxProcStats", "start", 5020000, << <<"cpu_user", JNum(7)>> >>),
      Event("NetManager", "profile", 5010000,
            << <<"cpu_user", JNum(9)>>, <<"tx_speed", JNum(5)>> >>),
      Record(<< <<"class", JStr("LinuxProcStats")>>, <<"ts", JNum(5200000)>>,
                <<"cpu_user", JNum(8)>> >>) }

SeriesClasses == {"LinuxProcStats", "NetManager"}
SeriesKeys == {"cpu_user", "cpu_sys", "pr_rss"}

InitSeries ==
    \E all \in SeqsOf(SeriesLines, 0, MaxLines) : ProfileStart(<<all>>)

NextSeries ==
    \/ ReadLine
    \/ PrintRead
    \/ BuildStore
    \/ Normalize
    \/ \E sclass \in SeriesClasses, key \in SeriesKeys : SeriesRequest(sclass, key)
    \/ \E sclass \in SeriesClasses, key1, key2 \in SeriesKeys :
           SeriesSumRequest(sclass, key1, key2)
    \/ Respond

SpecSeries == InitSeries /\ [][NextSeries]_vars

----------------------------------------------------------------------------
(* Properties of ingestion and of the DataFrame.                           *)

\* The lines of all files, in the order they are read.
RECURSIVE AllLines(_)
AllLines(files) ==
    IF files = <<>> THEN <<>> ELSE Head(files) \o AllLines(Tail(files))

Malformed(line) == line.json.t = "invalid"
ClasslessMap(line) == line.json.t = "map" /\ "class" \notin DictKeys(line.json.m)
Diagnostics == SelectSeq(stdout, LAMBDA o : o.msg = "JSON line invalid: ")

\* C1: for any N lines spread over any number of files, of which k fail to
\* parse and u parse to a map without 'class', ingestion never aborts and
\* ends with exactly N - k - u records stored and exactly k diagnostics.
C1_IngestionCounts ==
    LET all == AllLines(argv)
        k == Len(SelectSeq(all, Malformed))
        u == Len(SelectSeq(all, ClasslessMap))
    IN /\ pc # "raised"
       /\ pc = "build" =>
            /\ Len(stats) = Len(all) - k - u
            /\ Len(Diagnostics) = k

\* The original timestamps of the records that have one.
OrigTs == {DictGet(stats[j], "ts").n :
              j \in {i \in DOMAIN stats : "ts" \in DictKeys(stats[i])}}

\* C2: once df_stats is built, it holds every record once, the timestamp of
\* every record that has one is (original ts - least original ts) / 1000,
\* the least timestamp is 0 and none is negative.
C2_TimestampsNormalized ==
    pc = "serve" =>
        /\ Len(df_stats) = Len(stats)
        /\ {df_stats[i].idx : i \in DOMAIN df_stats} = 0..(Len(stats) - 1)
        /\ \A i \in DOMAIN df_stats :
              LET rec == stats[df_stats[i].idx + 1]
              IN IF "ts" \in DictKeys(rec)
                 THEN LET ts == Cell(df_stats[i], "ts")
                      IN /\ ts.t = "float"
                         /\ ts.den > 0
                         /\ ts.num >= 0
                         /\ \E m \in OrigTs :
                               /\ \A o \in OrigTs : m <= o
                               /\ ts.num * 1000 = (DictGet(rec, "ts").n - m) * ts.den
                 ELSE Cell(df_stats[i], "ts") = JNaN
        /\ \E i \in DOMAIN df_stats :
              HasCell(df_stats[i], "ts") /\ df_stats[i].rec["ts"].num = 0

\* A store whose first ingested record is not the earliest one, with three
\* different normalized timestamps.
C2_Witness ==
    /\ pc = "serve"
    /\ "ts" \in DictKeys(stats[1])
    /\ \E j \in DOMAIN stats :
          /\ "ts" \in DictKeys(stats[j])
          /\ DictGet(stats[j], "ts").n < DictGet(stats[1], "ts").n
    /\ Cardinality({df_stats[i].rec["ts"].num :
                       i \in {r \in DOMAIN df_stats : HasCell(df_stats[r], "ts")}}) = 3

\* C3: the store is sorted ascending by timestamp, and records with equal
\* timestamps keep their ingestion order.
C3_SortedStable ==
    pc \in {"normalize", "serve"} =>
        \A i, j \in DOMAIN df_stats :
            (i < j /\ HasCell(df_stats[i], "ts") /\ HasCell(df_stats[j], "ts")) =>
                LET a == df_stats[i].rec["ts"]
                    b == df_stats[j].rec["ts"]
                    less(x, y) == IF x.t = "float" THEN x.num * y.den < y.num * x.den
                                  ELSE x.n < y.n
                IN \/ less(a, b)
                   \/ ~less(b, a) /\ df_stats[i].idx < df_stats[j].idx

----------------------------------------------------------------------------
(* Properties of the profile series.                                       *)

\* Comparison of fractions with positive denominators.
FracLess(a, b) == a.num * b.den < b.num * a.den
FracEq(a, b) == a.num * b.den = b.num * a.den

\* w <= t < w + 100
InWindow(t, w) ==
    /\ ~FracLess(t, w)
    /\ FracLess(t, JFloat(w.num + 100 * w.den, w.den))

\* The points of the series of the last response that carry a value.
Present == SelectSeq(resp.series.val, LAMBDA p : p.v.t = "num")

IsExampleSeries(points) ==
    /\ Len(points) = 4
    /\ \A i \in 1..4 :
          /\ FracEq(points[i].ts, JFloat(<<0, 50, 150, 260>>[i], 1))
          /\ points[i].v = JNum(i)

Carriers(sclass, key) ==
    {j \in DOMAIN stats :
        /\ {"class", "event", key} \subseteq DictKeys(stats[j])
        /\ DictGet(stats[j], "class") = JStr(sclass)
        /\ DictGet(stats[j], "event") = JStr("profile")}

\* Point p is the projection (timestamp, key) of record rec.
PointOf(p, rec, key) ==
    /\ p.v = DictGet(rec, key)
    /\ IF "ts" \in DictKeys(rec)
       THEN /\ p.ts.t = "float"
            /\ p.ts.num * 1000 = (DictGet(rec, "ts").n - min_ts) * p.ts.den
       ELSE p.ts = JNaN

\* C9: the series that reaches bucketization holds one point (timestamp,
\* value) for exactly the records of the category with event 'profile' that
\* carry the key; no other record contributes a point.
C9_SeriesPoints ==
    (resp.fn = "Series" /\ resp.series.raised = "none") =>
        LET pts == dropna(resp.series.val)
            from == Carriers(resp.sclass, resp.key)
        IN /\ Len(pts) = Cardinality(from)
           /\ \A i \in DOMAIN pts : \E j \in from : PointOf(pts[i], stats[j], resp.key)
           /\ \A j \in from :
                 Cardinality({i \in DOMAIN pts : PointOf(pts[i], stats[j], resp.key)})
                   = Cardinality({h \in from :
                        /\ DictGet(stats[h], resp.key) = DictGet(stats[j], resp.key)
                        /\ ("ts" \in DictKeys(stats[h])) = ("ts" \in DictKeys(stats[j]))
                        /\ "ts" \in DictKeys(stats[j]) =>
                              DictGet(stats[h], "ts") = DictGet(stats[j], "ts")})

\* A series of one point from a store of three records, one of them a profile
\* record of the category without the key, one carrying the key under
\* another class or event.
C9_Witness ==
    /\ resp.fn = "Series"
    /\ resp.series.raised = "none"
    /\ Len(dropna(resp.series.val)) = 1
    /\ Len(stats) = 3
    /\ \E j \in DOMAIN stats :
          /\ resp.key \notin DictKeys(stats[j])
          /\ j \in Carriers(resp.sclass, "ts")
    /\ \E j \in DOMAIN stats :
          /\ resp.key \in DictKeys(stats[j])
          /\ j \notin Carriers(resp.sclass, resp.key)

Unseen(key) == \A j \in DOMAIN stats : key \notin DictKeys(stats[j])

\* C10: Series with a key no record carries, and SeriesSum with a key of the
\* two that no record carries, return an empty series without an error, and
\* bucketizing it gives an empty sequence without an error.
C10_UnseenKeyEmpty ==
    /\ (resp.fn = "Series" /\ Unseen(resp.key)) =>
          /\ resp.series = Return(<<>>)
          /\ resp.data = Return(<<>>)
    /\ (resp.fn = "SeriesSum" /\ (Unseen(resp.key) \/ Unseen(resp.key2))) =>
          /\ resp.series = Return(<<>>)
          /\ resp.data = Return(<<>>)

\* SeriesSum of a key some profile record of the category carries and a key
\* no record carries.
C10_Witness ==
    /\ resp.fn = "SeriesSum"
    /\ Carriers(resp.sclass, resp.key) # {}
    /\ Unseen(resp.key2)
    /\ resp.data = Return(<<>>)

----------------------------------------------------------------------------
(* json2graphviz.py: the runs checked.                                     *)

\* The state json2profile.py is in when it is not run.
ProfileIdle ==
    /\ argv = <<>>
    /\ fi = 1
    /\ li = 1
    /\ stats = <<>>
    /\ stdout = <<>>
    /\ pc = "idle"
    /\ exc = "none"
    /\ df_stats = <<>>
    /\ min_ts = 0
    /\ resp = NoResp

\* json2graphviz.py started on a file: the state before line 24.
GraphvizStart(lines) ==
    /\ gfile = lines
    /\ gli = 1
    /\ nodes = <<>>
    /\ gout = <<>>
    /\ gpc = "read"
    /\ gpos = <<1, 1>>
    /\ gexc = "none"
    /\ gargv = <<[ok |-> TRUE, lines |-> lines]>>
    /\ ProfileIdle
    /\ RemoteIdle
    /\ Ec2Idle

\* A node creation record of the log format json2graphviz.py reads.
NodeEvent(class, event, worker_rank, id, label, parents) ==
    Record(<< <<"class", JStr(class)>>, <<"event", JStr(event)>>,
              <<"worker_rank", JNum(worker_rank)>>, <<"node_id", JNum(id)>>,
              <<"node_label", JStr(label)>>,
              <<"parents", JList([i \in DOMAIN parents |-> JNum(parents[i])])>> >>)

\* Creation records of three nodes, a second definition of node 1 with
\* another label and other parents, a creation record of class DIA, and a
\* record of another class.
GraphLines ==
    { NodeEvent("DIABase", "create", 0, 1, "ReadLines", <<>>),
      NodeEvent("DIABase", "create", 0, 2, "Sort", <<1>>),
      NodeEvent("DIABase", "create", 0, 3, "Zip", <<1, 2>>),
      NodeEvent("DIABase", "create", 0, 1, "Merge", <<3, 2>>),
      NodeEvent("DIA", "create", 1, 2, "Cache", <<3>>),
      Event("Stream", "close", 5000000, << <<"id", JNum(1)>> >>) }

InitGraphviz ==
    \E lines \in SeqsOf(GraphLines, 0, MaxLines) : GraphvizStart(lines)

NextGraphviz ==
    GvReadLine \/ GvOpen \/ GvPrintNode \/ GvBlank \/ GvPrintEdge \/ GvClose

SpecGraphviz == InitGraphviz /\ [][NextGraphviz]_vars

\* A node creation record of the log format json2profile.py reads.
DiaEvent(ts, host_rank, worker_rank, id, label, parents) ==
    Event("DIABase", "create", ts,
          << <<"host_rank", JNum(host_rank)>>, <<"worker_rank", JNum(worker_rank)>>,
             <<"id", JNum(id)>>, <<"label", JStr(label)>>, <<"type", JStr("DOp")>>,
             <<"parents", JList([i \in DOMAIN parents |-> JNum(parents[i])])>> >>)

\* The creation of node 1 logged by worker 0 of two hosts, of node 2 logged by
\* workers 0 and 1 of one host, and records that create no node.
DiaLines ==
    { DiaEvent(5000000, 0, 0, 1, "ReadLines", <<>>),
      DiaEvent(5000100, 1, 0, 1, "ReadLines", <<>>),
      DiaEvent(5000200, 0, 0, 2, "Sort", <<1>>),
      DiaEvent(5000300, 0, 1, 2, "Sort", <<1>>),
      Event("Stream", "close", 5000400,
            << <<"host_rank", JNum(0)>>, <<"worker_rank", JNum(0)>>,
               <<"id", JNum(7)>>, <<"dia_id", JNum(2)>> >>),
      Event("LinuxProcStats", "profile", 5000500, << <<"cpu_user", JNum(1)>> >>) }

InitDia ==
    \E all \in SeqsOf(DiaLines, 0, MaxLines) : ProfileStart(<<all>>)

NextDia ==
    ReadLine \/ PrintRead \/ BuildStore \/ Normalize \/ DiaRequest \/ Respond

SpecDia == InitDia /\ [][NextDia]_vars

----------------------------------------------------------------------------
(* Properties of the graph.                                                *)

\* The ids of the records ingested with class DIABase, event create and
\* worker_rank 0.
DefinedIds ==
    {DictGet(stats[j], "id").n : j \in {i \in DOMAIN stats :
        /\ {"class", "event", "worker_rank", "id"} \subseteq DictKeys(stats[i])
        /\ DictGet(stats[i], "class") = JStr("DIABase")
        /\ DictGet(stats[i], "event") = JStr("create")
        /\ DictGet(stats[i], "worker_rank") = JNum(0)}}

\* C4: the graph holds exactly one node per distinct id among the records
\* with class DIABase, event create and worker_rank 0, and no other node.
C4_OneNodePerId ==
    (resp.fn = "dia_table" /\ resp.table.raised = "none") =>
        LET rows == resp.table.val
        IN /\ {rows[i].id : i \in DOMAIN rows} = DefinedIds
           /\ \A i, j \in DOMAIN rows : rows[i].id = rows[j].id => i = j

\* The lines of the log that json2graphviz.py takes as the creation of a node.
IsCreation(line, classes) ==
    /\ line.json.t = "map"
    /\ {"class", "event", "node_id"} \subseteq DictKeys(line.json.m)
    /\ \E c \in classes : DictGet(line.json.m, "class") = JStr(c)
    /\ DictGet(line.json.m, "event") = JStr("create")

Creations(id, classes) ==
    {i \in DOMAIN gfile : /\ IsCreation(gfile[i], classes)
                          /\ DictGet(gfile[i].json.m, "node_id") = JNum(id)}

CreatedIds(classes) ==
    {DictGet(gfile[i].json.m, "node_id").n :
        i \in {j \in DOMAIN gfile : IsCreation(gfile[j], classes)}}

FirstOf(S) == CHOOSE i \in S : \A j \in S : i <= j
LastOf(S) == CHOOSE i \in S : \A j \in S : j <= i

NodeStmts == SelectSeq(gout, LAMBDA o : o.kind = "node")
EdgeStmts == SelectSeq(gout, LAMBDA o : o.kind = "edge")
Warnings == SelectSeq(gout, LAMBDA o : o.kind = "warning")

\* C5: when an id appears in creation records with different labels, the
\* graph finally holds the label and parents of the first of them, one
\* conflict warning is recorded for the id, and no exception is raised.
C5_FirstDefinitionKept ==
    /\ gpc # "raised"
    /\ gpc = "done" =>
          /\ \A e \in DOMAIN nodes :
                LET id == nodes[e][1].n
                    first == gfile[FirstOf(Creations(id, {"DIABase"}))].json.m
                IN Creations(id, {"DIABase"}) # {} =>
                      /\ nodes[e][2].label = DictGet(first, "node_label")
                      /\ nodes[e][2].parents = DictGet(first, "parents")
           /\ Len(Warnings) = Cardinality({c \in CreatedIds({"DIABase"}) :
                 \E i, j \in Creations(c, {"DIABase"}) :
                     DictGet(gfile[i].json.m, "node_label")
                        # DictGet(gfile[j].json.m, "node_label")})

IsExampleLog ==
    gfile = << NodeEvent("DIABase", "create", 0, 1, "ReadLines", <<>>),
               NodeEvent("DIABase", "create", 0, 2, "Sort", <<1>>),
               NodeEvent("DIABase", "create", 0, 3, "Zip", <<1, 2>>) >>

Edge(p, id) == [kind |-> "edge", from |-> p, to |-> id]

\* C6: the edge statements are exactly one 'p -> id' for every entry p of
\* the parents list of every node id; the creation records of 1, 2, 3 with
\* parents [], [1], [1, 2] give 1->2, 1->3, 2->3 in that order.
C6_EdgesFromParents ==
    gpc = "done" =>
        /\ \A e \in DOMAIN nodes : \A k \in DOMAIN nodes[e][2].parents.l :
              LET p == nodes[e][2].parents.l[k].n
                  id == nodes[e][1].n
              IN Cardinality({x \in DOMAIN EdgeStmts : EdgeStmts[x] = Edge(p, id)})
                   = Cardinality({h \in DOMAIN nodes[e][2].parents.l :
                                     nodes[e][2].parents.l[h].n = p})
        /\ \A x \in DOMAIN EdgeStmts :
              \E e \in DOMAIN nodes :
                  /\ nodes[e][1].n = EdgeStmts[x].to
                  /\ \E k \in DOMAIN nodes[e][2].parents.l :
                        nodes[e][2].parents.l[k].n = EdgeStmts[x].from
        /\ IsExampleLog => EdgeStmts = <<Edge(1, 2), Edge(1, 3), Edge(2, 3)>>

\* The example log has been exported.
C6_Witness ==
    /\ gpc = "done"
    /\ IsExampleLog
    /\ Len(EdgeStmts) = 3

\* The edges of the nodes of node statements ns[from..], each node's parents
\* as listed in the last creation record of its id.
RECURSIVE EdgesInOrder(_, _)
EdgesInOrder(ns, classes) ==
    IF ns = <<>> THEN <<>>
    ELSE LET id == Head(ns).id
             last == gfile[LastOf(Creations(id, classes))].json.m
             ps == DictGet(last, "parents").l
         IN [k \in DOMAIN ps |-> Edge(ps[k].n, id)]
              \o EdgesInOrder(Tail(ns), classes)

\* C7 as stated: whatever the order of the creation records, the node
\* statements are in ascending order of id, and the edges grouped by node in
\* that order.
C7_NodesAscending ==
    gpc = "done" =>
        /\ \A a, b \in DOMAIN NodeStmts : a < b => NodeStmts[a].id < NodeStmts[b].id
        /\ \A a, b \in DOMAIN EdgeStmts : a < b => EdgeStmts[a].to <= EdgeStmts[b].to

\* C7 as amended: there is one node statement per created id, in the order
\* in which the ids first appear in creation records of the log, and the
\* edges are grouped by node in that same order, each node's edges in the
\* order of the parents of the last creation record of its id.
C7_NodesInCreationOrder ==
    gpc = "done" =>
        LET classes == {"DIABase", "DIA"}
        IN /\ {NodeStmts[a].id : a \in DOMAIN NodeStmts} = CreatedIds(classes)
           /\ \A a, b \in DOMAIN NodeStmts : a < b =>
                 FirstOf(Creations(NodeStmts[a].id, classes))
                    < FirstOf(Creations(NodeStmts[b].id, classes))
           /\ EdgeStmts = EdgesInOrder(NodeStmts, classes)

\* A log exported whose ids first appear out of ascending order, one of them
\* defined again after another id.
C7_Witness ==
    /\ gpc = "done"
    /\ \E a, b \in DOMAIN NodeStmts : a < b /\ NodeStmts[a].id > NodeStmts[b].id
    /\ \E a, b \in DOMAIN NodeStmts :
          /\ a < b
          /\ LastOf(Creations(NodeStmts[a].id, {"DIABase", "DIA"}))
                > FirstOf(Creations(NodeStmts[b].id, {"DIABase", "DIA"}))
    /\ EdgeStmts # <<>>

----------------------------------------------------------------------------
(* json2profile.py: the runs of the Stream tables checked.                 *)

\* The eight transfer counters of a record, with the values base + 1 .. base + 8.
Counters(base) == [i \in DOMAIN CounterCols |-> <<CounterCols[i], JNum(base + i)>>]

\* A stream-close record of the log format json2profile.py reads.
StreamEvent(ts, host_rank, worker_rank, id, dia_id, counters) ==
    Event("Stream", "close", ts,
          << <<"host_rank", JNum(host_rank)>>, <<"worker_rank", JNum(worker_rank)>>,
             <<"id", JNum(id)>>, <<"dia_id", JNum(dia_id)>> >> \o counters)

\* The creation of node 1 logged by worker 0 of two hosts and of node 2;
\* stream 1 of node 1 closed on two hosts, the later host first, and of node 2;
\* stream 2 of a node the log does not create; stream 3 closed without its
\* last counter.
StreamLines ==
    { DiaEvent(5000000, 0, 0, 1, "ReadLines", <<>>),
      DiaEvent(5000050, 1, 0, 1, "ReadLines", <<>>),
      DiaEvent(5000100, 0, 0, 2, "Sort", <<1>>),
      StreamEvent(5000900, 0, 0, 1, 1, Counters(10)),
      StreamEvent(5000800, 1, 0, 1, 1, Counters(20)),
      StreamEvent(5000700, 0, 1, 1, 2, Counters(30)),
      StreamEvent(5000600, 0, 0, 2, 9, Counters(40)),
      StreamEvent(5000500, 0, 0, 3, 1, SubSeq(Counters(50), 1, 7)) }

InitStream ==
    \E all \in SeqsOf(StreamLines, 0, MaxLines) : ProfileStart(<<all>>)

NextStream ==
    \/ ReadLine
    \/ PrintRead
    \/ BuildStore
    \/ Normalize
    \/ StreamRequest
    \/ StreamSummaryRequest
    \/ Respond

SpecStream == InitStream /\ [][NextStream]_vars

----------------------------------------------------------------------------
(* Properties of the Stream tables.                                        *)

\* The records ingested with the class and the event.
RecordsOf(class, event) ==
    {j \in DOMAIN stats :
        /\ {"class", "event"} \subseteq DictKeys(stats[j])
        /\ DictGet(stats[j], "class") = JStr(class)
        /\ DictGet(stats[j], "event") = JStr(event)}

\* The number a record has under the key, 0 if it has none.
NumOr0(rec, key) == IF key \in DictKeys(rec) THEN DictGet(rec, key).n ELSE 0

\* The row of a returned frame shows the record: its timestamp and the
\* columns cols, a counter the record lacks as 0.
ShowsRecord(row, rec, cols) ==
    /\ "ts" \in DictKeys(rec)
    /\ row["ts"].t = "float"
    /\ row["ts"].num * 1000 = (DictGet(rec, "ts").n - min_ts) * row["ts"].den
    /\ \A c \in cols : row[c] = NumOr0(rec, c)

StreamShown == {"id"} \cup Range(RankCols) \cup Range(CounterCols)

\* C11: stream_table has exactly one row per stream-close record of the
\* store, also when several worker-rank-0 creation records share the node id
\* a stream record refers to.
C11_OneRowPerStream ==
    (resp.fn = "stream_table" /\ resp.table.raised = "none") =>
        LET rows == resp.table.val
        IN /\ Len(rows) = Cardinality(RecordsOf("Stream", "close"))
           /\ \A j \in RecordsOf("Stream", "close") :
                 \E i \in DOMAIN rows : ShowsRecord(rows[i], stats[j], StreamShown)

\* The key (stream id, node id, host_rank, worker_rank) of a row of
\* stream_table, the node id taken from the record the row shows.
StreamKey(row) ==
    LET j == CHOOSE r \in RecordsOf("Stream", "close") :
                 ShowsRecord(row, stats[r], StreamShown)
    IN <<row["id"], DictGet(stats[j], "dia_id").n, row["host_rank"], row["worker_rank"]>>

\* C12: the rows stream_table returns after the join are in ascending
\* lexicographic order of (stream id, node id, host_rank, worker_rank).
C12_StreamRowsOrdered ==
    (resp.fn = "stream_table" /\ resp.table.raised = "none") =>
        LET rows == resp.table.val
        IN \A i, j \in DOMAIN rows : i < j =>
              ~LexLess(StreamKey(rows[j]), StreamKey(rows[i]), <<1, 2, 3, 4>>)

\* A table joined with a node, in which a row stands before a row of the same
\* stream and node that is earlier in the store.
C12_Witness ==
    /\ resp.fn = "stream_table"
    /\ resp.table.raised = "none"
    /\ \E i, j \in DOMAIN resp.table.val :
          LET a == resp.table.val[i]
              b == resp.table.val[j]
          IN /\ i < j
             /\ a["label_id"] # JNaN
             /\ a["id"] = b["id"]
             /\ a["label_id"] = b["label_id"]
             /\ a["host_rank"] < b["host_rank"]
             /\ FracLess(b["ts"], a["ts"])

\* The stream-close records carry everything the tables read but, possibly,
\* transfer counters.
CountersOnlyMissing ==
    \A j \in RecordsOf("Stream", "close") :
        {"ts", "id", "dia_id", "host_rank", "worker_rank"} \subseteq DictKeys(stats[j])

\* C13: a stream-close record that lacks a transfer counter, in that record
\* or in every record of the store, appears in stream_table with the counter
\* 0, and neither stream_table nor stream_summary_table fails.
C13_MissingCounterIsZero ==
    (resp.fn \in {"stream_table", "stream_summary_table"} /\ CountersOnlyMissing) =>
        /\ resp.table.raised = "none"
        /\ resp.fn = "stream_table" =>
              \A j \in RecordsOf("Stream", "close") :
                  \E i \in DOMAIN resp.table.val :
                      ShowsRecord(resp.table.val[i], stats[j], StreamShown)

\* The label_id of the node a record refers to: that of a worker-rank-0
\* creation record with the id, NaN if there is none.
IsLabelOf(l, rec) ==
    LET made == {j \in RecordsOf("DIABase", "create") :
                    /\ NumOr0(stats[j], "worker_rank") = 0
                    /\ DictGet(stats[j], "id") = DictGet(rec, "dia_id")}
    IN IF made = {} THEN l = JNaN
       ELSE \E j \in made :
               l = JStr(DictGet(stats[j], "label").s \o "."
                          \o ToString(DictGet(stats[j], "id").n))

\* C15: stream_summary_table has one row per (stream id, label); each counter
\* of the row is the sum of the counter over the stream-close records with
\* the stream id whose node has the label, records with an unresolved node
\* under the empty label; so for each counter the total over the rows is the
\* total over the stream-close records.
C15_SummarySums ==
    (resp.fn = "stream_summary_table" /\ resp.table.raised = "none") =>
        LET rows == resp.table.val
            closes == RecordsOf("Stream", "close")
            of(c, in(_)) == SumSeq([j \in DOMAIN stats |->
                                IF j \in closes /\ in(j) THEN NumOr0(stats[j], c) ELSE 0])
        IN /\ \A i, j \in DOMAIN rows :
                 (rows[i]["id"] = rows[j]["id"]
                    /\ rows[i]["label_id"] = rows[j]["label_id"]) => i = j
           /\ \A i \in DOMAIN rows : \A c \in Range(CounterCols) :
                 rows[i][c] = of(c, LAMBDA j :
                                  /\ DictGet(stats[j], "id").n = rows[i]["id"]
                                  /\ IsLabelOf(rows[i]["label_id"], stats[j]))
           /\ \A c \in Range(CounterCols) :
                 SumSeq([i \in DOMAIN rows |-> rows[i][c]]) = of(c, LAMBDA j : TRUE)

----------------------------------------------------------------------------
(* json2profile.py: the runs of the File table and of unresolved node      *)
(* references checked.                                                     *)

\* A file-close record of the log format json2profile.py reads.
FileEvent(ts, host_rank, id, dia_id, items, bytes) ==
    Event("File", "close", ts,
          << <<"host_rank", JNum(host_rank)>>, <<"worker_rank", JNum(0)>>,
             <<"id", JNum(id)>>, <<"dia_id", JNum(dia_id)>>,
             <<"items", JNum(items)>>, <<"bytes", JNum(bytes)>> >>)

\* Files with items 0, 5, 0 and 3 of node 1, the files with the greater keys
\* closed first.
ExampleFiles ==
    << FileEvent(5000900, 0, 4, 1, 0, 0),
       FileEvent(5000800, 1, 3, 1, 5, 50),
       FileEvent(5000700, 0, 3, 1, 0, 0),
       FileEvent(5000600, 0, 2, 1, 3, 30) >>

\* The creation of node 1 logged by worker 0 of two hosts and of node 2, the
\* example files and a file of node 2.
FileLines ==
    { DiaEvent(5000000, 0, 0, 1, "ReadLines", <<>>),
      DiaEvent(5000050, 1, 0, 1, "ReadLines", <<>>),
      DiaEvent(5000100, 0, 0, 2, "Sort", <<1>>),
      FileEvent(5000500, 0, 1, 2, 7, 70) } \cup Range(ExampleFiles)

\* The log of node 1 and the four example files.
ExampleFileLog == <<DiaEvent(5000000, 0, 0, 1, "ReadLines", <<>>)>> \o ExampleFiles

InitFile ==
    \E all \in SeqsOf(FileLines, 0, MaxLines) \cup {ExampleFileLog} :
        ProfileStart(<<all>>)

NextFile ==
    ReadLine \/ PrintRead \/ BuildStore \/ Normalize \/ FileRequest \/ Respond

SpecFile == InitFile /\ [][NextFile]_vars

\* Node 1, a stream and two files of node 1, a stream and two files of a node
\* the log does not create, one of the files without items.
UnresolvedLines ==
    { DiaEvent(5000000, 0, 0, 1, "ReadLines", <<>>),
      StreamEvent(5000900, 0, 0, 1, 1, Counters(10)),
      StreamEvent(5000800, 0, 0, 2, 9, Counters(20)),
      FileEvent(5000700, 0, 1, 1, 3, 30),
      FileEvent(5000600, 0, 2, 9, 4, 40),
      FileEvent(5000500, 0, 3, 9, 0, 0) }

InitUnresolved ==
    \E all \in SeqsOf(UnresolvedLines, 0, MaxLines) : ProfileStart(<<all>>)

NextUnresolved ==
    \/ ReadLine
    \/ PrintRead
    \/ BuildStore
    \/ Normalize
    \/ StreamRequest
    \/ FileRequest
    \/ Respond

SpecUnresolved == InitUnresolved /\ [][NextUnresolved]_vars

----------------------------------------------------------------------------
(* Properties of the File table and of unresolved node references.         *)

\* The ids of the worker-rank-0 creation records with an id.
CreatedNodes ==
    {j \in RecordsOf("DIABase", "create") :
        /\ {"worker_rank", "id"} \subseteq DictKeys(stats[j])
        /\ DictGet(stats[j], "worker_rank") = JNum(0)}

\* The record refers to a node no worker-rank-0 creation record creates.
Unresolved(rec) ==
    /\ "dia_id" \in DictKeys(rec)
    /\ \A j \in CreatedNodes : DictGet(stats[j], "id") # DictGet(rec, "dia_id")

\* The records ingested that agree with record j in ts and in the keys cols.
Alike(j, among, cols) ==
    {h \in among : \A c \in {"ts"} \cup cols :
        /\ (c \in DictKeys(stats[h])) = (c \in DictKeys(stats[j]))
        /\ c \in DictKeys(stats[j]) => DictGet(stats[h], c) = DictGet(stats[j], c)}

FileShown == {"id", "host_rank", "items", "bytes"}

FileKey(row) ==
    LET j == CHOOSE r \in RecordsOf("File", "close") :
                 ShowsRecord(row, stats[r], FileShown)
    IN <<DictGet(stats[j], "dia_id").n, row["id"], row["host_rank"]>>

\* No two worker-rank-0 creation records have the same id.
UniqueNodeIds ==
    \A i, j \in CreatedNodes :
        DictGet(stats[i], "id") = DictGet(stats[j], "id") => i = j

\* C16: when node ids are unique among the worker-rank-0 creation records,
\* file_table returns the file-close records with items > 0, each once, and
\* no record with items = 0, in the order of (node id, file id, host_rank);
\* records with items 0, 5, 0, 3 give the two rows with items 5 and 3.
C16_FilesWithItems ==
    (resp.fn = "file_table" /\ UniqueNodeIds) =>
        LET rows == resp.table.val
            held == {j \in RecordsOf("File", "close") : NumOr0(stats[j], "items") > 0}
        IN /\ resp.table.raised = "none"
           /\ Len(rows) = Cardinality(held)
           /\ \A j \in held :
                 Cardinality({i \in DOMAIN rows : ShowsRecord(rows[i], stats[j], FileShown)})
                   = Cardinality(Alike(j, held, FileShown))
           /\ \A i \in DOMAIN rows : rows[i]["items"] > 0
           /\ \A i, j \in DOMAIN rows : i < j =>
                 ~LexLess(FileKey(rows[j]), FileKey(rows[i]), <<1, 2, 3>>)
           /\ argv = <<ExampleFileLog>> =>
                 /\ Len(rows) = 2
                 /\ {rows[i]["items"] : i \in DOMAIN rows} = {5, 3}

\* The example log has been tabulated: the two rows come out in the order of
\* the file ids, which is not the order of the store.
C16_Witness ==
    /\ resp.fn = "file_table"
    /\ argv = <<ExampleFileLog>>
    /\ resp.table.raised = "none"
    /\ Len(resp.table.val) = 2
    /\ resp.table.val[1]["items"] = 3
    /\ resp.table.val[2]["label_id"] = JStr("ReadLines.1")

----------------------------------------------------------------------------
(* json2profile.py: the runs of flatten_dicts checked.                     *)

FlattenKeys == {"a", "b", "a_b"}

\* A number, and a list that holds a mapping.
FlattenLeaves == {JNum(1), JList(<<JNum(2), JMap(<< <<"b", JNum(3)>> >>)>>)}

\* The mappings nested up to depth deep: no key, one key, or two keys of
\* which the second has a leaf.
RECURSIVE NestedMaps(_)
NestedMaps(depth) ==
    IF depth = 0 THEN {}
    ELSE LET values == FlattenLeaves \cup {JMap(m) : m \in NestedMaps(depth - 1)}
         IN {<<>>}
            \cup {<< <<k, v>> >> : k \in FlattenKeys, v \in values}
            \cup {<< <<k[1], v>>, <<k[2], w>> >> :
                    k \in {x \in FlattenKeys \X FlattenKeys : x[1] # x[2]},
                    v \in values, w \in FlattenLeaves}

\* One log of one record with a payload nested up to MaxDepth deep.
InitFlatten ==
    \E d \in NestedMaps(MaxDepth) :
        ProfileStart(<< <<Record(<< <<"class", JStr("Test")>> >> \o d)>> >>)

NextFlatten == ReadLine \/ PrintRead

SpecFlatten == InitFlatten /\ [][NextFlatten]_vars

\* The leaves of d that are no mappings, each with the key its path gives.
RECURSIVE LeafPaths(_, _)
LeafPaths(d, parent_key) ==
    UNION {IF d[i][2].t = "map"
           THEN LeafPaths(d[i][2].m, NewKey(parent_key, "_", d[i][1]))
           ELSE {<<NewKey(parent_key, "_", d[i][1]), d[i][2]>>} : i \in DOMAIN d}

\* C17: the result of flatten_dicts holds no mapping as a value; every leaf
\* of the input that is no mapping, reached through the keys k1, ..., kn, is
\* in the result under the key 'k1_..._kn' with its value; a list is kept
\* as one value, unchanged, also when it holds mappings.
C17_FlattenLeaves ==
    Len(stats) = 1 =>
        LET d == argv[1][1].json.m
            flat == stats[1]
        IN /\ \A i \in DOMAIN flat : flat[i][2].t # "map"
           /\ \A leaf \in LeafPaths(d, "") :
                 /\ leaf[1] \in DictKeys(flat)
                 /\ DictGet(flat, leaf[1]) = leaf[2]

----------------------------------------------------------------------------
(* json2profile.py: the runs of ingestion over lines that are no records.  *)

\* A record, a map without 'class', and values of every other JSON type,
\* among them strings and a list that contain 'class'.
DropLines ==
    { Event("LinuxProcStats", "profile", 5000000, << <<"cpu_user", JNum(1)>> >>),
      Record(<< <<"event", JStr("profile")>>, <<"ts", JNum(5000100)>> >>),
      Line("null", JNull),
      Line("true", JBool(TRUE)),
      Line("5", JNum(5)),
      Line("\"x\"", JStr("x")),
      Line("\"first class\"", JStr("first class")),
      Line("[1]", JList(<<JNum(1)>>)),
      Line("[\"class\"]", JList(<<JStr("class")>>)) }

InitDrop ==
    \E all \in SeqsOf(DropLines, 0, MaxLines) : ProfileStart(<<all>>)

NextDrop == ReadLine \/ PrintRead

SpecDrop == InitDrop /\ [][NextDrop]_vars

\* The line parses to a map that carries 'class'.
IsRecord(line) == line.json.t = "map" /\ "class" \in DictKeys(line.json.m)

\* C18: a line that parses to a value that is no map with 'class' (null, a
\* boolean, a number, a string, an array, a map without 'class'; also a
\* string or an array that contains 'class') is dropped without a word:
\* no record is stored for it, ingestion does not abort, and the lines after
\* it are processed.
C18_NonRecordsDropped ==
    LET all == AllLines(argv)
        records == SelectSeq(all, IsRecord)
    IN /\ pc # "raised"
       /\ pc = "build" =>
            /\ stats = [i \in DOMAIN records |-> flatten_dicts(records[i].json.m, "", "_")]
            /\ stdout = <<[msg |-> "Read json events from files",
                           events |-> Len(records), files |-> Len(argv)]>>

----------------------------------------------------------------------------
(* json2graphviz.py: the runs over logs with anomalies.                    *)

\* Two creation records, a record of another class, a line that does not
\* parse, a record without 'class', and a DIABase record without 'event'.
AnomalyLines ==
    { NodeEvent("DIABase", "create", 0, 1, "ReadLines", <<>>),
      NodeEvent("DIABase", "create", 0, 2, "Sort", <<1>>),
      Event("Stream", "close", 5000000, << <<"id", JNum(1)>> >>),
      Line("{oops", JInvalid),
      Record(<< <<"event", JStr("create")>>, <<"node_id", JNum(3)>> >>),
      Record(<< <<"class", JStr("DIABase")>>, <<"node_id", JNum(3)>> >>) }

InitAnomaly ==
    \E lines \in SeqsOf(AnomalyLines, 0, MaxLines) : GraphvizStart(lines)

NextAnomaly ==
    GvReadLine \/ GvOpen \/ GvPrintNode \/ GvBlank \/ GvPrintEdge \/ GvClose

SpecAnomaly == InitAnomaly /\ [][NextAnomaly]_vars

\* The creation records of the log that have all their fields.
ValidCreations ==
    {i \in DOMAIN gfile :
        /\ IsCreation(gfile[i], {"DIABase", "DIA"})
        /\ {"node_label", "parents"} \subseteq DictKeys(gfile[i].json.m)}

\* C19: json2graphviz.py run on a log with a line that does not parse, or a
\* record without 'class' or 'event', does not abort and emits the node and
\* edge statements of every valid creation record of the log.
C19_AnomaliesRecovered ==
    /\ gpc # "raised"
    /\ gpc = "done" =>
          \A i \in ValidCreations :
              LET data == gfile[i].json.m
                  id == DictGet(data, "node_id").n
              IN /\ \E x \in DOMAIN NodeStmts : NodeStmts[x].id = id
                 /\ i = LastOf(Creations(id, {"DIABase", "DIA"})) =>
                       \A k \in DOMAIN DictGet(data, "parents").l :
                           \E x \in DOMAIN EdgeStmts :
                               EdgeStmts[x] = Edge(DictGet(data, "parents").l[k].n, id)

----------------------------------------------------------------------------
(* The empty graph.                                                        *)

\* json2graphviz.py, run on a log without a creation record, prints a graph
\* without statements.
EmptyExport ==
    (gpc = "done" /\ \A i \in DOMAIN gfile : ~IsCreation(gfile[i], {"DIABase", "DIA"})) =>
        gout = <<[kind |-> "open"], [kind |-> "blank"], [kind |-> "close"]>>

\* C20: for every non-empty store without a node creation record, also one
\* in which no record has a worker_rank, id, label or parents field,
\* dia_table returns an empty table and does not raise, and the exporter
\* prints a well-formed graph with no node and no edge statement.
C20_EmptyGraph ==
    /\ (resp.fn = "dia_table" /\ stats # <<>> /\ RecordsOf("DIABase", "create") = {}) =>
          resp.table = Return(<<>>)
    /\ EmptyExport

----------------------------------------------------------------------------
(* Properties of SeriesSum, of the summary totals and of flatten_dicts.    *)

\* The sum over the records j of stats that satisfy in of val(j).
SumOver(in(_), val(_)) ==
    SumSeq([j \in DOMAIN stats |-> IF in(j) THEN val(j) ELSE 0])

\* C26: SeriesSum(category, keyA, keyB), when both keys occur in the store,
\* gives for each profile record of the category with both keys the point
\* (timestamp, keyA value + keyB value); a record of the category with one of
\* the keys only gives no point after bucketization: every bucket is the mean
\* of the sums of the records with both keys in its window.
C26_SeriesSumPoints ==
    (/\ resp.fn = "SeriesSum"
     /\ ~Unseen(resp.key)
     /\ ~Unseen(resp.key2)
     /\ resp.series.raised = "none") =>
        LET pts == dropna(resp.series.val)
            both == Carriers(resp.sclass, resp.key) \cap Carriers(resp.sclass, resp.key2)
            sum(j) == DictGet(stats[j], resp.key).n + DictGet(stats[j], resp.key2).n
            at(p, j) == /\ "ts" \in DictKeys(stats[j])
                        /\ p.ts.t = "float"
                        /\ p.ts.num * 1000 = (DictGet(stats[j], "ts").n - min_ts) * p.ts.den
                        /\ p.v = JNum(sum(j))
            inside(j, w) == /\ "ts" \in DictKeys(stats[j])
                            /\ InWindow(JFloat(DictGet(stats[j], "ts").n - min_ts, 1000), w)
        IN /\ Len(pts) = Cardinality(both)
           /\ \A j \in both :
                 Cardinality({i \in DOMAIN pts : at(pts[i], j)})
                   = Cardinality({h \in both : /\ sum(h) = sum(j)
                                               /\ DictGet(stats[h], "ts") = DictGet(stats[j], "ts")})
           /\ resp.data.raised = "none" =>
                 LET out == resp.data.val
                 IN /\ \A j \in both : \E g \in DOMAIN out : inside(j, out[g][1])
                    /\ \A g \in DOMAIN out :
                          LET n == SumOver(LAMBDA j : j \in both /\ inside(j, out[g][1]),
                                           LAMBDA j : 1)
                              total == SumOver(LAMBDA j : j \in both /\ inside(j, out[g][1]),
                                               sum)
                          IN /\ n > 0
                             /\ out[g][2].num * n = total * out[g][2].den

\* A sum series bucketized from a store in which a profile record of the
\* category has both keys and another has one of them only.
C26_Witness ==
    /\ resp.fn = "SeriesSum"
    /\ resp.data.raised = "none"
    /\ Len(resp.data.val) >= 1
    /\ Carriers(resp.sclass, resp.key) \cap Carriers(resp.sclass, resp.key2) # {}
    /\ Carriers(resp.sclass, resp.key) \ Carriers(resp.sclass, resp.key2) # {}

\* C27: in every row of stream_summary_table the totals are the sums of the
\* counters of the two legs of the same row.
C27_TotalsConsistent ==
    (resp.fn = "stream_summary_table" /\ resp.table.raised = "none") =>
        \A i \in DOMAIN resp.table.val :
            LET row == resp.table.val[i]
            IN /\ row["rx_items"] = row["rx_net_items"] + row["rx_int_items"]
               /\ row["tx_items"] = row["tx_net_items"] + row["tx_int_items"]
               /\ row["rx_bytes"] = row["rx_net_bytes"] + row["rx_int_bytes"]
               /\ row["tx_bytes"] = row["tx_net_bytes"] + row["tx_int_bytes"]

\* A summary row that adds up the records of stream 1 of two hosts.
C27_Witness ==
    /\ resp.fn = "stream_summary_table"
    /\ resp.table.raised = "none"
    /\ \E i \in DOMAIN resp.table.val :
          /\ resp.table.val[i]["rx_net_items"] = 11 + 21
          /\ resp.table.val[i]["rx_items"] = 11 + 21 + 15 + 25

\* The number of leaves of d that are no mappings.
RECURSIVE CountLeaves(_)
CountLeaves(d) ==
    SumSeq([i \in DOMAIN d |->
               IF d[i][2].t = "map" THEN CountLeaves(d[i][2].m) ELSE 1])

\* C28: flatten_dicts loses no value: the result has as many keys as the
\* input has leaves that are no mappings.
C28_FlattenLosesNothing ==
    Len(stats) = 1 => Len(stats[1]) = CountLeaves(argv[1][1].json.m)

----------------------------------------------------------------------------
(* json2graphviz.py: the runs over labels of every category.               *)

\* A node of each category of labels, and a node with a label of none.
StyleLines ==
    { NodeEvent("DIABase", "create", 0, 1, "ReadLines", <<>>),
      NodeEvent("DIABase", "create", 0, 2, "Sort", <<1>>),
      NodeEvent("DIABase", "create", 0, 3, "Size", <<2>>),
      NodeEvent("DIABase", "create", 0, 4, "Cache", <<2>>),
      NodeEvent("DIABase", "create", 0, 5, "Collapse", <<4>>),
      NodeEvent("DIABase", "create", 0, 6, "Custom", <<1>>) }

InitStyle ==
    \E lines \in SeqsOf(StyleLines, 0, MaxLines) : GraphvizStart(lines)

NextStyle ==
    GvReadLine \/ GvOpen \/ GvPrintNode \/ GvBlank \/ GvPrintEdge \/ GvClose

SpecStyle == InitStyle /\ [][NextStyle]_vars

\* The style attributes of each category of labels.
CategoryStyles ==
    << <<SourceLabels, "colorscheme=accent5, style=filled, color=1, shape=invhouse">>,
       <<TransformLabels, "colorscheme=accent5, style=filled, color=2, shape=box">>,
       <<SinkLabels, "colorscheme=accent5, style=filled, color=3, shape=house">>,
       <<{"Cache"}, "colorscheme=accent5, style=filled, color=4, shape=oval">>,
       <<{"Collapse"}, "colorscheme=accent5, style=filled, color=5, shape=oval">> >>

\* C23: there is one node statement per node; its label text is
\* '<label>.<id>'; its style is that of the one category that holds the
\* label, no style at all for a label of no category, and never the style of
\* two categories; no error is raised.
C23_NodeStyles ==
    /\ gpc # "raised"
    /\ gpc = "done" =>
          /\ Len(NodeStmts) = Len(nodes)
          /\ \A e \in DOMAIN nodes :
                LET label == nodes[e][2].label.s
                    in == {c \in DOMAIN CategoryStyles : label \in CategoryStyles[c][1]}
                    stmt == NodeStmts[e]
                IN /\ stmt.id = nodes[e][1].n
                   /\ stmt.label = label \o "." \o ToString(nodes[e][1].n)
                   /\ Len(stmt.style) <= 1
                   /\ in = {} => stmt.style = <<>>
                   /\ \A c \in in : stmt.style = <<CategoryStyles[c][2]>>

\* A graph exported with a node of no category and a Cache node.
C23_Witness ==
    /\ gpc = "done"
    /\ \E a, b \in DOMAIN NodeStmts :
          /\ NodeStmts[a].style = <<>>
          /\ NodeStmts[a].label = "Custom.6"
          /\ NodeStmts[b].style =
                <<"colorscheme=accent5, style=filled, color=4, shape=oval">>

----------------------------------------------------------------------------
(* json2graphviz.py: the invocation, lines 18-24.                          *)

\* Lines 18-24: the test of the argument count and the open of the file.
GvStart ==
    /\ gpc = "start"
    /\ IF Len(gargv) # 1
       THEN /\ gout' = Append(gout, [kind |-> "usage"])
            /\ gpc' = "exit0"
            /\ UNCHANGED <<gfile, gexc>>
       ELSE IF ~gargv[1].ok
       THEN /\ gpc' = "raised"
            /\ gexc' = "IOError"
            /\ UNCHANGED <<gfile, gout>>
       ELSE /\ gfile' = gargv[1].lines
            /\ gpc' = "read"
            /\ UNCHANGED <<gout, gexc>>
    /\ UNCHANGED <<gli, nodes, gpos, gargv>>
    /\ UNCHANGED <<pvars, rvars, evars>>

\* The exit status of the process: sys.exit(0) and the end of the script
\* give 0, an uncaught exception gives 1 after its traceback on stderr.
ExitStatus ==
    CASE gpc \in {"done", "exit0"} -> 0
      [] gpc = "raised" -> 1

\* A creation record and a line that is no JSON.
InvokeLines ==
    { NodeEvent("DIABase", "create", 0, 2, "Sort", <<1>>),
      Line("{oops", JInvalid) }

\* The files of a command line: one that opens, with its lines, or one that
\* does not.
InvokeFiles ==
    {[ok |-> TRUE, lines |-> l] : l \in SeqsOf(InvokeLines, 0, MaxLines)}
    \cup {[ok |-> FALSE, lines |-> <<>>]}

InitInvoke ==
    /\ gargv \in SeqsOf(InvokeFiles, 0, MaxFiles)
    /\ gfile = <<>>
    /\ gli = 1
    /\ nodes = <<>>
    /\ gout = <<>>
    /\ gpc = "start"
    /\ gpos = <<1, 1>>
    /\ gexc = "none"
    /\ ProfileIdle
    /\ RemoteIdle
    /\ Ec2Idle

NextInvoke ==
    \/ GvStart
    \/ GvReadLine \/ GvOpen \/ GvPrintNode \/ GvBlank \/ GvPrintEdge \/ GvClose

SpecInvoke == InitInvoke /\ [][NextInvoke]_vars

\* C24: the exit status is success whenever at least one of the files given
\* could be opened and read, also when other files could not and when lines
\* are malformed; it is failure, with a message on the diagnostic stream,
\* when no file is given or none of them can be opened.
C24_ExitStatus ==
    gpc \in {"done", "exit0", "raised"} =>
        IF \E f \in DOMAIN gargv : gargv[f].ok
        THEN ExitStatus = 0
        ELSE ExitStatus # 0 /\ gexc # "none"

----------------------------------------------------------------------------
(* RemoteThrill.py: the calls of RemoteThrill and RemoteDIA.  A call makes  *)
(* one request per worker; the rpyc servers answer in any order, served by  *)
(* the background threads of line 71.                                       *)

\* The Thrill context the server of connection w makes for Create(rank, ..).
Ctx(w, rank) == [kind |-> "ctx", worker |-> w, rank |-> rank]

\* The DIA of worker w after ops operations on it.
Dia(w, ops) == [kind |-> "dia", worker |-> w, ops |-> ops]

\* The operations of the two classes and the objects they run on.
ContextOps == {"Distribute", "Generate"}
DiaOps == {"Map", "ReduceBy"}
ActionOps == {"AllGather", "Size"}

\* What the worker behind request i of the call answers.
Answer(op, i) ==
    CASE op = "Create" -> Ctx(i, i - 1)
      [] op \in ContextOps -> Dia(rself.ctx[i].worker, 0)
      [] op \in DiaOps -> Dia(rself.dias[i].worker, rself.dias[i].ops + 1)
      [] op \in ActionOps -> [kind |-> op, worker |-> rself.dias[i].worker,
                              ops |-> rself.dias[i].ops]

\* An AsyncResult: not yet made, waiting for the answer, or answered with a
\* value or with an exception of the remote side.
NotIssued == [state |-> "none", error |-> FALSE, value |-> JNull]
Issued == [state |-> "sent", error |-> FALSE, value |-> JNull]
Answered(v) == [state |-> "done", error |-> FALSE, value |-> v]
Failed == [state |-> "done", error |-> TRUE, value |-> JNull]

\* The start of a call with n requests: anetrefs is made, nothing is sent.
StartCall(op, n) ==
    /\ rcall.pc = "idle"
    /\ rcall' = [op |-> op, pc |-> "issue", pos |-> 1]
    /\ asyncs' = [i \in 1..n |-> NotIssued]
    /\ rlog' = <<>>
    /\ UNCHANGED <<rhosts, rself, rret>>
    /\ UNCHANGED <<pvars, gvars, evars>>

\* RemoteThrill.__init__, lines 69-73.
RemoteThrillInit ==
    /\ rself.ctx = <<>>
    /\ StartCall("Create", rhosts)

\* RemoteThrill.Distribute and Generate, first statement.
ContextCall(op) ==
    /\ op \in ContextOps
    /\ rself.ctx # <<>>
    /\ StartCall(op, Len(rself.ctx))

\* RemoteDIA.Map and ReduceBy, first statement.
DiaCall(op) ==
    /\ op \in DiaOps
    /\ rself.dias # <<>>
    /\ \A i \in DOMAIN rself.dias : rself.dias[i].ops < MaxOps
    /\ StartCall(op, Len(rself.dias))

\* RemoteDIA.AllGather and Size, first statement.
ActionCall(op) ==
    /\ op \in ActionOps
    /\ rself.dias # <<>>
    /\ StartCall(op, Len(rself.dias))

\* Where the caller is after request pos of n is sent: the comprehension
\* 'asyncs = [ref(...) for ref in anetrefs]' ends before the first wait.
AfterIssue(pos, n) ==
    IF pos < n THEN [pc |-> "issue", pos |-> pos + 1]
    ELSE [pc |-> "wait", pos |-> 1]

\* One element of 'asyncs = [ref(...) for ref in anetrefs]'.
Issue ==
    /\ rcall.pc = "issue"
    /\ asyncs' = [asyncs EXCEPT ![rcall.pos] = Issued]
    /\ rlog' = Append(rlog, <<"issue", rcall.pos>>)
    /\ rcall' = [op |-> rcall.op,
                 pc |-> AfterIssue(rcall.pos, Len(asyncs)).pc,
                 pos |-> AfterIssue(rcall.pos, Len(asyncs)).pos]
    /\ UNCHANGED <<rhosts, rself, rret>>
    /\ UNCHANGED <<pvars, gvars, evars>>

\* The server of request i answers, with a value or with an exception.
Complete(i, fails) ==
    /\ i \in DOMAIN asyncs
    /\ asyncs[i].state = "sent"
    /\ asyncs' = [asyncs EXCEPT ![i] =
                     IF fails THEN Failed ELSE Answered(Answer(rcall.op, i))]
    /\ rlog' = Append(rlog, <<"done", i>>)
    /\ UNCHANGED <<rhosts, rself, rcall, rret>>
    /\ UNCHANGED <<pvars, gvars, evars>>

\* One iteration of 'for a in asyncs: a.wait()': it returns once the answer
\* is there.
Wait ==
    /\ rcall.pc = "wait"
    /\ asyncs[rcall.pos].state = "done"
    /\ rlog' = Append(rlog, <<"waited", rcall.pos>>)
    /\ rcall' = IF rcall.pos < Len(asyncs)
                THEN [rcall EXCEPT !.pos = rcall.pos + 1]
                ELSE [rcall EXCEPT !.pc = "collect", !.pos = 1]
    /\ UNCHANGED <<rhosts, rself, asyncs, rret>>
    /\ UNCHANGED <<pvars, gvars, evars>>

\* The answers in the order in which they arrived.
CollectArrived(as, log) ==
    LET done == SelectSeq(log, LAMBDA e : e[1] = "done")
    IN [k \in DOMAIN done |-> as[done[k][2]].value]

\* '[a.value for a in asyncs]'.
Collect(as, log) == [i \in DOMAIN as |-> as[i].value]

\* The last statement of a call: a.value raises the exception of the remote
\* side; otherwise the list is returned, kept as self._ctx, or wrapped in a
\* RemoteDIA.
ReturnCall ==
    /\ rcall.pc = "collect"
    /\ rlog' = Append(rlog, <<"return", 0>>)
    /\ rcall' = [rcall EXCEPT !.pc = "idle"]
    /\ IF \E i \in DOMAIN asyncs : asyncs[i].error
       THEN /\ rret' = Raise("remote")
            /\ UNCHANGED rself
       ELSE /\ rret' = Return(Collect(asyncs, rlog))
            /\ rself' = CASE rcall.op = "Create" ->
                                 [rself EXCEPT !.ctx = Collect(asyncs, rlog)]
                          [] rcall.op \in ContextOps \cup DiaOps ->
                                 [rself EXCEPT !.dias = Collect(asyncs, rlog)]
                          [] OTHER -> rself
    /\ UNCHANGED <<rhosts, asyncs>>
    /\ UNCHANGED <<pvars, gvars, evars>>

InitRemote ==
    /\ rhosts \in 1..MaxWorkers
    /\ rself = [ctx |-> <<>>, dias |-> <<>>]
    /\ rcall = [op |-> "none", pc |-> "idle", pos |-> 1]
    /\ asyncs = <<>>
    /\ rlog = <<>>
    /\ rret = Return(JNull)
    /\ ProfileIdle
    /\ GraphvizIdle
    /\ Ec2Idle

NextRemote ==
    \/ RemoteThrillInit
    \/ \E op \in ContextOps : ContextCall(op)
    \/ \E op \in DiaOps : DiaCall(op)
    \/ \E op \in ActionOps : ActionCall(op)
    \/ Issue
    \/ \E i \in 1..MaxWorkers, fails \in BOOLEAN : Complete(i, fails)
    \/ Wait
    \/ ReturnCall

SpecRemote == InitRemote /\ [][NextRemote]_vars

\* The positions in rlog of the events of a kind.
Events(kind) == {k \in DOMAIN rlog : rlog[k][1] = kind}

\* C29: every call is a fork-join over the workers: each request is sent
\* before the caller waits for any answer, the call returns only after every
\* worker has answered, and the list (or the handles) it returns is in the
\* order of the worker ranks, whatever the order of the answers.
C29_ForkJoin ==
    /\ \A k \in Events("waited") \cup Events("return") :
          \A i \in DOMAIN asyncs : \E h \in Events("issue") : rlog[h][2] = i /\ h < k
    /\ rcall.pc \in {"wait", "collect"} =>
          \A i \in DOMAIN asyncs : asyncs[i].state # "none"
    /\ \A k \in Events("return") :
          \A i \in DOMAIN asyncs : \E h \in Events("done") : rlog[h][2] = i /\ h < k
    /\ (Events("return") # {} /\ rret.raised = "none") =>
          /\ Len(rret.val) = Len(asyncs)
          /\ \A i \in DOMAIN rret.val :
                /\ rret.val[i].worker = i
                /\ rret.val[i] = asyncs[i].value
          /\ rcall.op = "Create" =>
                \A i \in DOMAIN rself.ctx : rself.ctx[i] = Ctx(i, i - 1)
          /\ rcall.op \in ContextOps \cup DiaOps =>
                \A i \in DOMAIN rself.dias : rself.dias[i].worker = i

\* A call that has returned the handles of two workers of which the second
\* answered first.
C29_Witness ==
    /\ Events("return") # {}
    /\ rret.raised = "none"
    /\ rcall.op \in DiaOps
    /\ Len(rret.val) = 2
    /\ \E h, k \in Events("done") : h < k /\ rlog[h][2] = 2 /\ rlog[k][2] = 1

----------------------------------------------------------------------------
(* ec2-setup/setup.py: the instances are created, then the loop of lines    *)
(* 39-55 gives each running instance a volume made from the snapshot.       *)
(* Instances 1..COUNT are those of this run; the instances above MaxCount   *)
(* are others that carry the same key name.                                 *)

OwnIds == 1..ecfg.COUNT
ForeignIds == (MaxCount + 1)..(MaxCount + MaxForeign)

\* Lines 23-30 and the test of line 37.
CreateInstances ==
    /\ epc = "create"
    /\ einst' = [i \in DOMAIN einst |-> IF i \in OwnIds THEN "pending" ELSE einst[i]]
    /\ epc' = IF ecfg.VOL_SNAPSHOT_ID THEN "filter" ELSE "done"
    /\ attached' = <<>>
    /\ UNCHANGED <<ecfg, evols, efor>>
    /\ UNCHANGED <<pvars, gvars, rvars>>

\* EC2 brings a pending instance up.
InstanceRuns(i) ==
    /\ i \in DOMAIN einst
    /\ einst[i] = "pending"
    /\ einst' = [einst EXCEPT ![i] = "running"]
    /\ UNCHANGED <<ecfg, evols, attached, epc, efor>>
    /\ UNCHANGED <<pvars, gvars, rvars>>

\* Lines 40-44: the running instances with the key name.
Filter ==
    /\ epc = "filter"
    /\ efor' = [todo |-> {i \in DOMAIN einst : einst[i] = "running"}, cur |-> 0]
    /\ epc' = "for"
    /\ UNCHANGED <<ecfg, einst, evols, attached>>
    /\ UNCHANGED <<pvars, gvars, rvars>>

\* Lines 45-47: the next instance of the loop; one that is not in the list
\* gets a new volume.
ForInstance(i) ==
    /\ epc = "for"
    /\ i \in efor.todo
    /\ IF \E k \in DOMAIN attached : attached[k] = i
       THEN /\ efor' = [todo |-> efor.todo \ {i}, cur |-> 0]
            /\ UNCHANGED <<evols, epc>>
       ELSE /\ evols' = Append(evols, [state |-> "creating", instance |-> 0])
            /\ efor' = [todo |-> efor.todo \ {i}, cur |-> i]
            /\ epc' = "volume"
    /\ UNCHANGED <<ecfg, einst, attached>>
    /\ UNCHANGED <<pvars, gvars, rvars>>

\* EC2 finishes a volume.
VolumeAvailable(v) ==
    /\ v \in DOMAIN evols
    /\ evols[v].state = "creating"
    /\ evols' = [evols EXCEPT ![v].state = "available"]
    /\ UNCHANGED <<ecfg, einst, attached, epc, efor>>
    /\ UNCHANGED <<pvars, gvars, rvars>>

\* Lines 48-51: the wait for the volume, attach_volume and the append.
AttachVolume ==
    /\ epc = "volume"
    /\ evols[Len(evols)].state = "available"
    /\ evols' = [evols EXCEPT ![Len(evols)] = [state |-> "in-use", instance |-> efor.cur]]
    /\ attached' = Append(attached, efor.cur)
    /\ efor' = [efor EXCEPT !.cur = 0]
    /\ epc' = "for"
    /\ UNCHANGED <<ecfg, einst>>
    /\ UNCHANGED <<pvars, gvars, rvars>>

\* Lines 52-55: the test that ends the loop.
TestCount ==
    /\ epc = "for"
    /\ efor.todo = {}
    /\ epc' = IF Len(attached) = ecfg.COUNT THEN "done" ELSE "filter"
    /\ UNCHANGED <<ecfg, einst, evols, attached, efor>>
    /\ UNCHANGED <<pvars, gvars, rvars>>

InitEc2 ==
    /\ ecfg \in [COUNT : 1..MaxCount, VOL_SNAPSHOT_ID : BOOLEAN]
    /\ einst \in [1..(MaxCount + MaxForeign) -> {"none", "pending", "running"}]
    /\ \A i \in DOMAIN einst : i \notin ForeignIds => einst[i] = "none"
    /\ evols = <<>>
    /\ attached = <<>>
    /\ epc = "create"
    /\ efor = [todo |-> {}, cur |-> 0]
    /\ ProfileIdle
    /\ GraphvizIdle
    /\ RemoteIdle

StepEc2 ==
    \/ CreateInstances
    \/ Filter
    \/ \E i \in 1..(MaxCount + MaxForeign) : ForInstance(i)
    \/ AttachVolume
    \/ TestCount

NextEc2 ==
    \/ StepEc2
    \/ \E i \in 1..(MaxCount + MaxForeign) : InstanceRuns(i)
    \/ \E v \in 1..(MaxCount + MaxForeign) : VolumeAvailable(v)

\* The script keeps running, every pending instance comes up and every
\* volume becomes available.
FairEc2 ==
    /\ WF_vars(StepEc2)
    /\ \A i \in 1..(MaxCount + MaxForeign) : WF_vars(InstanceRuns(i))
    /\ \A v \in 1..(MaxCount + MaxForeign) : WF_vars(VolumeAvailable(v))

SpecEc2 == InitEc2 /\ [][NextEc2]_vars /\ FairEc2

\* The number of volumes attached to instance i.
VolumesOf(i) == Cardinality({v \in DOMAIN evols : evols[v].instance = i})

\* C30: with a snapshot configured, every instance coming up and every
\* volume becoming available, the attach loop ends, and when it has ended
\* exactly COUNT instances have a volume and none has more than one, also
\* when other running instances carry the same key name.
C30_AttachLoopEnds ==
    /\ <>(epc = "done")
    /\ [](epc = "done" /\ ecfg.VOL_SNAPSHOT_ID =>
            /\ Cardinality({i \in DOMAIN einst : VolumesOf(i) >= 1}) = ecfg.COUNT
            /\ \A i \in DOMAIN einst : VolumesOf(i) <= 1)

\* The same for the runs in which no other instance carries the key name.
C30_EndsWithoutOthers ==
    (\A i \in ForeignIds : einst[i] = "none") => C30_AttachLoopEnds

----------------------------------------------------------------------------
(* json2profile.py: what the derivations do to the frame objects.  Every    *)
(* derivation starts with 'df = df_stats', which binds df to the object     *)
(* df_stats itself.  Indexing with a mask or a column list, set_index,      *)
(* sort_values, merge and groupby return a new frame; 'df[col] = ...' and   *)
(* 'del df[col]' write to the object df is bound to.  An environment is     *)
(* [store, df, same]: the frame of df_stats, the frame of df, and whether   *)
(* df is the object df_stats.                                               *)

\* df = df_stats
Bound(store) == [store |-> store, df |-> store, same |-> TRUE]

\* The selection done in place, as with inplace=True.
RebindInPlace(env, frame) ==
    [store |-> IF env.same THEN frame ELSE env.store, df |-> frame, same |-> env.same]

\* df = df[mask], df = df[[columns]], df = df.set_index(..), and the like:
\* df is bound to the new frame.
Rebind(env, frame) == [store |-> env.store, df |-> frame, same |-> FALSE]

\* The assignment on a selection that shares its data with df_stats.
AssignShared(env, frame) == [store |-> frame, df |-> frame, same |-> env.same]

\* df[col] = values, del df[col]: the object df is bound to changes.
Assign(env, frame) ==
    [store |-> IF env.same THEN frame ELSE env.store, df |-> frame, same |-> env.same]

\* A call of another derivation in the middle of one.
Nested(env, callee) ==
    [store |-> callee.store, df |-> IF env.same THEN callee.store ELSE env.df,
     same |-> env.same]

\* df[mask]
Where(df, keep(_)) == SelectSeq(df, keep)

\* df[[columns]]
Take(df, cols) ==
    [i \in DOMAIN df |->
        [idx |-> df[i].idx,
         rec |-> [c \in cols \cap DOMAIN df[i].rec |-> df[i].rec[c]]]]

\* df[col] = values; a NaN value is a missing cell.
SetColumn(df, col, value(_)) ==
    [i \in DOMAIN df |->
        [idx |-> df[i].idx,
         rec |-> [c \in IF value(df[i]) = JNaN THEN DOMAIN df[i].rec \ {col}
                        ELSE DOMAIN df[i].rec \cup {col} |->
                     IF c = col THEN value(df[i]) ELSE df[i].rec[c]]]]

\* del df[col]
DelColumn(df, col) ==
    [i \in DOMAIN df |->
        [idx |-> df[i].idx,
         rec |-> [c \in DOMAIN df[i].rec \ {col} |-> df[i].rec[c]]]]

\* df[c] = df[c].astype(int) for the columns in turn, up to the first that
\* raises.
RECURSIVE AssignInts(_, _, _)
AssignInts(env, cols, all) ==
    IF cols = <<>> THEN env
    ELSE IF Head(cols) \notin all THEN env
    ELSE IF \E i \in DOMAIN env.df : ~HasCell(env.df[i], Head(cols)) THEN env
    ELSE AssignInts(Assign(env, SetColumn(env.df, Head(cols),
                                          LAMBDA row : Cell(row, Head(cols)))),
                    Tail(cols), all)

\* Series, lines 58-63.
SeriesEnv(store, sclass, key) ==
    LET e0 == Bound(store)
    IN IF key \notin Columns(store) \/ ~({"class", "event"} \subseteq Columns(store))
       THEN e0
       ELSE LET e1 == Rebind(e0, Where(e0.df, LAMBDA row : ClassEvent(row, sclass, "profile")))
                e2 == Rebind(e1, Take(e1.df, {"ts", key}))
            IN Rebind(e2, e2.df)

\* SeriesSum, lines 66-74.
SeriesSumEnv(store, sclass, key1, key2) ==
    LET e0 == Bound(store)
    IN IF key1 \notin Columns(store) \/ key2 \notin Columns(store)
          \/ ~({"class", "event"} \subseteq Columns(store))
       THEN e0
       ELSE LET e1 == Rebind(e0, Where(e0.df, LAMBDA row : ClassEvent(row, sclass, "profile")))
                e2 == Rebind(e1, Take(e1.df, {"ts", key1, key2}))
                e3 == Assign(e2, SetColumn(e2.df, key1,
                                 LAMBDA row : AddCells(Cell(row, key1), Cell(row, key2))))
                e4 == Assign(e3, DelColumn(e3.df, key2))
            IN Rebind(e4, e4.df)

\* progname, lines 107-115.
prognameEnv(store) ==
    LET e0 == Bound(store)
    IN IF ~({"class", "event", "host_rank"} \subseteq Columns(store)) THEN e0
       ELSE Rebind(e0, Where(e0.df, LAMBDA row :
                               /\ ClassEvent(row, "Cmdline", "start")
                               /\ Cell(row, "host_rank") = JNum(0)))

\* dia_table, lines 118-127.
dia_tableEnv(store) ==
    LET e0 == Bound(store)
        e1 == Rebind(e0, Where(e0.df, LAMBDA row :
                                 /\ ClassEvent(row, "DIABase", "create")
                                 /\ Cell(row, "worker_rank") = JNum(0)))
        e2 == Rebind(e1, Take(e1.df, {"id", "label", "type", "parents"}))
        e3 == AssignInts(e2, <<"id">>, {"id"})
        e4 == Assign(e3, SetColumn(e3.df, "label_id", LAMBDA row :
                         IF HasCell(row, "label")
                         THEN JStr(row.rec["label"].s \o "." \o ToString(row.rec["id"].n))
                         ELSE JNaN))
    IN IF ~({"class", "event", "worker_rank"} \subseteq Columns(store)) THEN e0
       ELSE IF Len(e1.df) = 0 THEN e1
       ELSE IF ~({"id", "label", "type", "parents"} \subseteq Columns(store)) THEN e1
       ELSE IF \E i \in DOMAIN e2.df : ~HasCell(e2.df[i], "id") THEN e2
       ELSE Rebind(e4, e4.df)

\* df[total] = df[net] + df[int] for the totals in turn, lines 177-180.
RECURSIVE AssignTotals(_, _)
AssignTotals(env, totals) ==
    IF totals = <<>> THEN env
    ELSE AssignTotals(Assign(env, SetColumn(env.df, Head(totals)[1],
                                 LAMBDA row : AddCells(Cell(row, Head(totals)[2]),
                                                       Cell(row, Head(totals)[3])))),
                      Tail(totals))

\* The common shape of stream_table, stream_summary_table and file_table:
\* the selection, the columns taken, the integer columns, dia_table().
TableEnv(store, class, keep(_), taken, ints, totals) ==
    LET e0 == Bound(store)
        e1 == Rebind(e0, Where(e0.df, LAMBDA row : ClassEvent(row, class, "close")))
        e2 == Rebind(e1, Take(Where(e1.df, keep), taken))
        e3 == AssignInts(e2, ints, Columns(store))
        e4 == AssignTotals(e3, totals)
        e5 == Rebind(e4, e4.df)
    IN IF ~({"class", "event"} \subseteq Columns(store)) THEN e0
       ELSE IF Len(e1.df) = 0 THEN e1
       ELSE IF ~(taken \subseteq Columns(store)) THEN e1
       ELSE IF AstypeInt(store, e2.df, ints) # "none" THEN e3
       ELSE Rebind(Nested(e5, dia_tableEnv(e5.store)), e5.df)

\* stream_table, lines 130-153.
stream_tableEnv(store) ==
    TableEnv(store, "Stream", LAMBDA row : TRUE,
             {"ts", "id", "dia_id"} \cup Range(RankCols) \cup Range(CounterCols),
             <<"id", "dia_id">> \o RankCols \o CounterCols, <<>>)

\* stream_summary_table, lines 159-185.
stream_summary_tableEnv(store) ==
    TableEnv(store, "Stream", LAMBDA row : TRUE,
             {"ts", "id", "dia_id"} \cup Range(CounterCols),
             <<"id", "dia_id">> \o CounterCols, TotalCols)

\* file_table, lines 191-207.
file_tableEnv(store) ==
    TableEnv(store, "File", HasItems, Columns(store) \cup {"ts", "items"},
             FileInts, <<>>)

\* The selection of stage_lines, lines 217-218.
IsStage(row) ==
    /\ Cell(row, "class") = JStr("StageBuilder")
    /\ Cell(row, "worker_rank") = JNum(0)
    /\ Cell(row, "event") \in {JStr("execute-start"), JStr("pushdata-start")}

\* stage_lines, lines 213-224.
stage_linesEnv(store) ==
    LET e0 == Bound(store)
        e1 == Rebind(e0, Where(e0.df, IsStage))
        e2 == Rebind(e1, Take(e1.df, {"ts", "event", "id", "label"}))
        e3 == AssignInts(e2, <<"id">>, {"id"})
    IN IF ~({"class", "worker_rank", "event"} \subseteq Columns(store)) THEN e0
       ELSE IF ~({"ts", "id", "label"} \subseteq Columns(store)) THEN e1
       ELSE IF \E i \in DOMAIN e2.df : ~HasCell(e2.df[i], "id") THEN e2
       ELSE Assign(e3, SetColumn(e3.df, "label", LAMBDA row :
                       IF HasCell(row, "label")
                       THEN JStr(row.rec["label"].s \o "." \o ToString(row.rec["id"].n)
                                   \o " " \o row.rec["event"].s)
                       ELSE JNaN))

\* progname, lines 107-115: the program of the first Cmdline record.
progname ==
    LET df == df_stats
    IN IF ~({"class", "event", "host_rank"} \subseteq Columns(df))
       THEN Return(JStr("unknown"))
       ELSE LET sel == Where(df, LAMBDA row : /\ ClassEvent(row, "Cmdline", "start")
                                              /\ Cell(row, "host_rank") = JNum(0))
            IN IF Len(sel) = 0 \/ "program" \notin Columns(df)
               THEN Return(JStr("unknown"))
               ELSE Return(Cell(sel[1], "program"))

\* stage_lines, lines 213-224: a KeyError gives the empty list, the
\* ValueError of astype(int) is not caught.
stage_lines ==
    LET df == df_stats
        sel == Where(df, IsStage)
    IN IF ~({"class", "worker_rank", "event", "ts", "id", "label"} \subseteq Columns(df))
       THEN Return(<<>>)
       ELSE IF \E i \in DOMAIN sel : ~HasCell(sel[i], "id") THEN Raise("ValueError")
       ELSE Return([i \in DOMAIN sel |->
               [value |-> Cell(sel[i], "ts"),
                text |-> Cell(stage_linesEnv(df).df[i], "label")]])

\* The derivations, Series and SeriesSum with the arguments of lines 235-236.
Views == {"Series", "SeriesSum", "progname", "dia_table", "stream_table",
          "stream_summary_table", "file_table", "stage_lines"}

\* What a derivation returns.
ResultOf(view) ==
    CASE view = "Series" -> Series("LinuxProcStats", "cpu_user")
      [] view = "SeriesSum" -> SeriesSum("LinuxProcStats", "cpu_user", "cpu_sys")
      [] view = "progname" -> progname
      [] view = "dia_table" -> dia_table
      [] view = "stream_table" -> stream_table
      [] view = "stream_summary_table" -> stream_summary_table
      [] view = "file_table" -> file_table
      [] view = "stage_lines" -> stage_lines

\* What a derivation leaves of the frame objects.
EnvOf(view, store) ==
    CASE view = "Series" -> SeriesEnv(store, "LinuxProcStats", "cpu_user")
      [] view = "SeriesSum" -> SeriesSumEnv(store, "LinuxProcStats", "cpu_user", "cpu_sys")
      [] view = "progname" -> prognameEnv(store)
      [] view = "dia_table" -> dia_tableEnv(store)
      [] view = "stream_table" -> stream_tableEnv(store)
      [] view = "stream_summary_table" -> stream_summary_tableEnv(store)
      [] view = "file_table" -> file_tableEnv(store)
      [] view = "stage_lines" -> stage_linesEnv(store)

\* A derivation is called.  resp keeps the first derivation called and what
\* it returned then, the frame df_stats was before, and whether another
\* derivation has been called since.
Derive(view) ==
    /\ pc = "serve"
    /\ view \in Views
    /\ df_stats' = EnvOf(view, df_stats).store
    /\ resp' = IF resp = NoResp
               THEN [fn |-> "derive", view |-> view, result |-> ResultOf(view),
                     watch |-> view, first |-> ResultOf(view),
                     before |-> df_stats, between |-> FALSE]
               ELSE [resp EXCEPT !.view = view, !.result = ResultOf(view),
                                 !.between = resp.between \/ view # resp.watch]
    /\ UNCHANGED <<argv, fi, li, stats, stdout, pc, exc, min_ts>>
    /\ UNCHANGED <<gvars, rvars, evars>>

\* The log of a run: a command line, a node, a profile record with both
\* keys, a stream, a file and a stage.
FrameLog ==
    << Event("Cmdline", "start", 5000000,
             << <<"host_rank", JNum(0)>>, <<"program", JStr("word_count")>> >>),
       DiaEvent(5000100, 0, 0, 1, "ReadLines", <<>>),
       Event("LinuxProcStats", "profile", 5000200,
             << <<"cpu_user", JNum(1)>>, <<"cpu_sys", JNum(2)>> >>),
       StreamEvent(5000300, 0, 0, 7, 1, Counters(10)),
       FileEvent(5000400, 0, 3, 1, 5, 50),
       Event("StageBuilder", "execute-start", 5000500,
             << <<"worker_rank", JNum(0)>>, <<"id", JNum(1)>>,
                <<"label", JStr("ReadLines")>> >>) >>

\* The lines of the log at the positions in S, in the order of the log.
Pick(S) ==
    LET at == SelectSeq([i \in DOMAIN FrameLog |-> i], LAMBDA i : i \in S)
    IN [k \in DOMAIN at |-> FrameLog[at[k]]]

InitFrame ==
    \E S \in {T \in SUBSET DOMAIN FrameLog : Cardinality(T) <= MaxLines} :
        ProfileStart(<<Pick(S)>>)

NextFrame ==
    \/ ReadLine \/ PrintRead \/ BuildStore \/ Normalize
    \/ \E view \in Views : Derive(view)

SpecFrame == InitFrame /\ [][NextFrame]_vars

\* C22: no derivation changes df_stats: after any sequence of calls of
\* Series, SeriesSum, progname, dia_table, stream_table,
\* stream_summary_table, file_table and stage_lines the frame is what it was
\* before the first of them.
C22_StoreUnchanged ==
    resp.fn = "derive" => df_stats = resp.before

\* dia_table and SeriesSum, which assign and delete columns of their
\* frames, have been called on a store with rows for them.
C22_Witness ==
    /\ resp.fn = "derive"
    /\ resp.between
    /\ resp.watch = "dia_table"
    /\ resp.view = "SeriesSum"
    /\ resp.first.raised = "none" /\ Len(resp.first.val) >= 1
    /\ resp.result.raised = "none" /\ Len(resp.result.val) >= 1

\* C21: a derivation computed again over the same store, with other
\* derivations called in between, returns what it returned the first time;
\* dia_table returns the same nodes, labels and parent lists.
C21_Recomputed ==
    (resp.fn = "derive" /\ resp.view = resp.watch) => resp.result = resp.first

\* dia_table called again after another derivation, over a store with a node.
C21_Witness ==
    /\ resp.fn = "derive"
    /\ resp.watch = "dia_table"
    /\ resp.view = "dia_table"
    /\ resp.between
    /\ resp.result.raised = "none"
    /\ Len(resp.result.val) >= 1

====
